---- MODULE Spec2Model ----
(***************************************************************************)
(* A model of hiper's focus timer (commands/fokus.py) and of the session   *)
(* and goal ledgers behind it (storage.py, commands/prefokus.py,           *)
(* commands/postfokus.py, commands/finish.py).                             *)
(*                                                                         *)
(* Text is a sequence of one-character strings, so that strip, lower and   *)
(* startswith are computed.  An optional value is None (<<>>) or <<v>>.    *)
(* A datetime is a number of clock ticks, TicksPerSecond ticks making one  *)
(* second and TicksPerDay ticks one calendar day; a date is a day number.  *)
(* The calls into messages.py only produce the text that is printed and    *)
(* are not part of the state.                                              *)
(***************************************************************************)
EXTENDS Integers, Sequences, FiniteSets, TLC

\* ------------------------------------------------------------------ bounds
MaxTime == 2          \* the clock stops advancing at this tick
MaxRows == 2          \* rows the session ledger may hold
TicksPerSecond == 2   \* clock resolution: ticks in one second
TicksPerDay == 3      \* ticks in one calendar day

None == <<>>
Some(v) == <<v>>
BadText == <<0, 0>>   \* a field whose text does not parse (no <<v>> equals it)
Raised == <<0, 0>>    \* what stands for a value when the call raises instead

\* Let(v, LAMBDA x : e) is LET x == v IN e, with v computed once
Let(v, F(_)) == CHOOSE y \in {F(x) : x \in {v}} : TRUE

\* ------------------------------------------------------------------- text
T_a == <<"a">>
T_a_sp == <<"a", " ">>
T_b == <<"b">>
TitleArgs == {<<>>, T_a_sp, T_b}

RECURSIVE LStrip(_)
LStrip(s) == IF s # <<>> /\ Head(s) = " " THEN LStrip(Tail(s)) ELSE s

RECURSIVE RStrip(_)
RStrip(s) ==
    IF s # <<>> /\ s[Len(s)] = " " THEN RStrip(SubSeq(s, 1, Len(s) - 1)) ELSE s

\* str.strip()
Strip(s) == RStrip(LStrip(s))

DigitChars == <<"0", "1", "2", "3", "4", "5", "6", "7", "8", "9">>

RECURSIVE Decimal(_)
Decimal(n) ==
    IF n < 10 THEN <<DigitChars[n + 1]>>
    ELSE Decimal(n \div 10) \o <<DigitChars[(n % 10) + 1]>>

\* f"{n:02d}"
Pad2(n) == IF n < 10 THEN <<"0">> \o Decimal(n) ELSE Decimal(n)

\* a variant that never writes the hours
format_hms_without_hours(seconds) ==
    Pad2((seconds \div 60) % 60) \o <<"m">> \o Pad2(seconds % 60) \o <<"s">>

format_hms(seconds) ==
    LET secs == seconds % 60
        minutes == (seconds \div 60) % 60
        hours == (seconds \div 60) \div 60
    IN  IF hours # 0
        THEN Pad2(hours) \o <<"h">> \o Pad2(minutes) \o <<"m">> \o Pad2(secs) \o <<"s">>
        ELSE Pad2(minutes) \o <<"m">> \o Pad2(secs) \o <<"s">>

\* --------------------------------------------------------- session ledger
\* A row of sessions.csv as it lies in the file: start, end and duration are
\* <<>> (empty text), <<v>> (text that parses to v) or BadText.
SessionRow(title, start, end, duration) ==
    [title |-> title, start |-> Some(start), end |-> Some(end),
     duration |-> Some(duration)]

\* fromisoformat / int raise on text that does not parse
RowRaises(r) == r.start = BadText \/ r.end = BadText \/ r.duration = BadText

\* rows with an empty start or end are passed over
RowKept(r) == r.start # <<>> /\ r.end # <<>>

ParsedRow(r) ==
    [title |-> r.title, start |-> r.start[1], end |-> r.end[1],
     duration |-> IF r.duration = <<>> THEN 0 ELSE r.duration[1]]

RECURSIVE ParsedRows(_)
ParsedRows(file) ==
    IF file = <<>> THEN <<>>
    ELSE IF RowKept(Head(file))
         THEN <<ParsedRow(Head(file))>> \o ParsedRows(Tail(file))
         ELSE ParsedRows(Tail(file))

\* load_sessions_csv: ok = FALSE when the load raises
load_sessions_csv(file) ==
    IF \E i \in 1..Len(file) : RowRaises(file[i])
    THEN [ok |-> FALSE, rows |-> <<>>]
    ELSE [ok |-> TRUE, rows |-> ParsedRows(file)]

RECURSIVE SumDurations(_)
SumDurations(rows) ==
    IF rows = <<>> THEN 0 ELSE Head(rows).duration + SumDurations(Tail(rows))

\* whether get_time_worked_for_title counts row r
RowCounts(title, after, r) ==
    /\ Strip(r.title) = Strip(title)
    /\ (after = None \/ ~(r.start < after[1]))

\* get_time_worked_for_title, on the rows load_sessions_csv returned
get_time_worked_for_title(title, after, rows) ==
    SumDurations(SelectSeq(rows, LAMBDA r : RowCounts(title, after, r)))

\* ------------------------------------------------------------ goal ledger
Goal(title, est, estf, ts, deadline, tw, twf, sb) ==
    [title |-> title, estimate_seconds |-> est, estimate_formatted |-> estf,
     estimate_timestamp |-> ts, deadline |-> deadline,
     time_worked_seconds |-> tw, time_worked_formatted |-> twf, start_by |-> sb]

\* a variant that enters the title with an estimate of one second
BlankGoal_with_estimate(title) == Goal(title, 1, <<>>, None, None, 0, <<>>, None)

\* the entry load_goals_csv creates for a session title that has none
BlankGoal(title) == Goal(title, 0, <<>>, None, None, 0, <<>>, None)

\* the row save_goals_csv writes for a goal (zero is written as empty text
\* and read back as zero; a missing formatted value is filled in)
SavedRow(g) ==
    [g EXCEPT
       !.estimate_formatted =
           IF @ = <<>> /\ g.estimate_seconds > 0
           THEN format_hms(g.estimate_seconds) ELSE @,
       !.time_worked_formatted =
           IF @ = <<>> /\ g.time_worked_seconds > 0
           THEN format_hms(g.time_worked_seconds) ELSE @]

\* save_goals_csv: the whole file is rewritten
save_goals_csv(goals) == [i \in 1..Len(goals) |-> SavedRow(goals[i])]

\* one row of goals.csv as load_goals_csv reads it
ReadGoalRow(row) ==
    [row EXCEPT
       !.title = Strip(@),
       !.estimate_formatted =
           IF @ = <<>> /\ row.estimate_seconds > 0
           THEN format_hms(row.estimate_seconds) ELSE @,
       !.time_worked_formatted =
           IF @ = <<>> /\ row.time_worked_seconds > 0
           THEN format_hms(row.time_worked_seconds) ELSE @]

IndexOfTitle(goals, title) ==
    IF \E i \in 1..Len(goals) : goals[i].title = title
    THEN CHOOSE i \in 1..Len(goals) :
            /\ goals[i].title = title
            /\ \A j \in 1..(i - 1) : goals[j].title # title
    ELSE 0

\* existing_goals[title] = {...}: a dict keeps the place of a key it has
DictPut(goals, g) ==
    LET i == IndexOfTitle(goals, g.title)
    IN  IF i = 0 THEN Append(goals, g) ELSE [goals EXCEPT ![i] = g]

RECURSIVE ExistingGoals(_)
ExistingGoals(file) ==
    IF file = <<>> THEN <<>>
    ELSE Let(ExistingGoals(SubSeq(file, 1, Len(file) - 1)), LAMBDA rest :
         Let(ReadGoalRow(file[Len(file)]), LAMBDA g :
             IF g.title = <<>> THEN rest ELSE DictPut(rest, g)))

\* the blank entries added for the session titles that have no goal yet.
\* session_titles is a Python set, whose order is not fixed; every append
\* reconciles the goals, so a load meets at most one new title and the order
\* of first appearance taken here is the only one
RECURSIVE WithSessionTitles(_, _)
WithSessionTitles(goals, rows) ==
    IF rows = <<>> THEN goals
    ELSE Let(Strip(Head(rows).title), LAMBDA title :
         Let(IF title = <<>> \/ IndexOfTitle(goals, title) # 0
             THEN goals ELSE Append(goals, BlankGoal(title)), LAMBDA entered :
             WithSessionTitles(entered, Tail(rows))))

\* a variant that counts the sessions from before the estimate as well
WindowedTime_all_sessions(g, rows) == get_time_worked_for_title(g.title, None, rows)

\* the time worked load_goals_csv computes for a goal
WindowedTime(g, rows) ==
    get_time_worked_for_title(g.title, g.estimate_timestamp, rows)

\* a variant that also drops start_by when the time worked has changed
Reconciled_drops_start_by(g, rows) ==
    Let(WindowedTime(g, rows), LAMBDA new_time :
        IF g.time_worked_seconds # new_time
        THEN [g EXCEPT !.time_worked_seconds = new_time,
                       !.time_worked_formatted =
                           IF new_time > 0 THEN format_hms(new_time) ELSE <<>>,
                       !.start_by = None]
        ELSE g)

\* "Update time_worked for all goals", for one goal
Reconciled(g, rows) ==
    Let(WindowedTime(g, rows), LAMBDA new_time :
    Let(IF new_time > 0 THEN format_hms(new_time) ELSE <<>>, LAMBDA formatted :
    Let(IF g.time_worked_seconds # new_time
        THEN [g EXCEPT !.time_worked_seconds = new_time,
                       !.time_worked_formatted = formatted]
        ELSE IF g.time_worked_formatted = <<>>
             THEN [g EXCEPT !.time_worked_formatted = formatted]
             ELSE g, LAMBDA g1 :
        IF g1.estimate_seconds > 0 /\ g1.estimate_formatted = <<>>
        THEN [g1 EXCEPT !.estimate_formatted = format_hms(g1.estimate_seconds)]
        ELSE g1)))

\* a variant that rewrites goals.csv on every load
MustSave_always(existing, entered, rows) == TRUE

\* "Save if new entries were created or time_worked was updated"
MustSave(existing, entered, rows) ==
    \/ Len(entered) # Len(existing)
    \/ \E i \in 1..Len(entered) :
          entered[i].time_worked_seconds # WindowedTime(entered[i], rows)

\* load_goals_csv on the two files: the goals returned, whether goals.csv was
\* rewritten, and goals.csv afterwards; ok = FALSE when it raises
load_goals_csv(file, sessFile) ==
    Let(load_sessions_csv(sessFile), LAMBDA sess :
    Let(ExistingGoals(file), LAMBDA existing :
    Let(WithSessionTitles(existing, sess.rows), LAMBDA entered :
    Let([i \in 1..Len(entered) |-> Reconciled(entered[i], sess.rows)], LAMBDA goals :
    Let(MustSave(existing, entered, sess.rows), LAMBDA wrote :
        IF ~sess.ok
        THEN [ok |-> FALSE, goals |-> <<>>, wrote |-> FALSE, file |-> file]
        ELSE [ok |-> TRUE, goals |-> goals, wrote |-> wrote,
              file |-> IF wrote THEN save_goals_csv(goals) ELSE file])))))

\* the path save_session_csv returns
sessions_csv == "sessions.csv"

\* save_session_csv: the row is appended, then the goal ledger is reconciled;
\* a failure of the reconciliation is printed and dropped
\* a variant that opens sessions.csv for writing instead of appending
save_session_csv_rewriting(sessFile, file, title, start, end, duration_seconds) ==
    Let(<<SessionRow(title, start, end, duration_seconds)>>, LAMBDA written :
    Let(load_goals_csv(file, written), LAMBDA loaded :
        [sessions |-> written,
         goals |-> IF loaded.ok THEN loaded.file ELSE file,
         path |-> Some(sessions_csv)]))

\* a variant without the try block around load_goals_csv
save_session_csv_unguarded(sessFile, file, title, start, end, duration_seconds) ==
    Let(Append(sessFile, SessionRow(title, start, end, duration_seconds)),
        LAMBDA appended :
    Let(load_goals_csv(file, appended), LAMBDA loaded :
        [sessions |-> appended,
         goals |-> IF loaded.ok THEN loaded.file ELSE file,
         path |-> IF loaded.ok THEN Some(sessions_csv) ELSE Raised]))

\* path is what the call returns, Raised were an exception to leave it
save_session_csv(sessFile, file, title, start, end, duration_seconds) ==
    Let(Append(sessFile, SessionRow(title, start, end, duration_seconds)),
        LAMBDA appended :
    Let(load_goals_csv(file, appended), LAMBDA loaded :
        [sessions |-> appended,
         goals |-> IF loaded.ok THEN loaded.file ELSE file,
         path |-> Some(sessions_csv)]))

\* ----------------------------------------------------------------- planning
\* datetime.date(), date.today()
DateOf(t) == t \div TicksPerDay

\* A variant that counts the deadline day itself as workable
_calculate_start_by_deadline_workable(estimate_seconds, deadline, time_worked_seconds, seconds_per_day, today) ==
    LET remaining_seconds == estimate_seconds - time_worked_seconds
        days_needed == (remaining_seconds + seconds_per_day - 1) \div seconds_per_day
    IN  IF remaining_seconds <= 0 THEN today
        ELSE deadline - (days_needed - 1)

\* _calculate_start_by; seconds_per_day is the configured work_per_day
_calculate_start_by(estimate_seconds, deadline, time_worked_seconds, seconds_per_day, today) ==
    LET remaining_seconds == estimate_seconds - time_worked_seconds
        days_needed == (remaining_seconds + seconds_per_day - 1) \div seconds_per_day
        last_workable_day == deadline - 1
    IN  IF remaining_seconds <= 0 THEN today
        ELSE last_workable_day - (days_needed - 1)

\* _update_time_worked, for one goal: the time worked over all the sessions of
\* the title, and start_by from it
UpdatedTimeWorked(g, rows, seconds_per_day, today) ==
    Let(get_time_worked_for_title(g.title, None, rows), LAMBDA tw :
        [g EXCEPT
           !.time_worked_seconds = tw,
           !.start_by =
               IF g.estimate_seconds > 0 /\ g.deadline # None
               THEN Some(_calculate_start_by(g.estimate_seconds, g.deadline[1], tw,
                                             seconds_per_day, today))
               ELSE @])

_update_time_worked(goals, rows, seconds_per_day, today) ==
    [i \in 1..Len(goals) |-> UpdatedTimeWorked(goals[i], rows, seconds_per_day, today)]

\* An option given on the command line: absent, text that parses to val, or
\* text that does not parse.
NoArg == [kind |-> "none"]
OkArg(v) == [kind |-> "ok", val |-> v]
BadArg == [kind |-> "bad"]

\* prefokus_run, "Create new goal"
NewGoal(title, estimate, deadline, rows, seconds_per_day, t) ==
    Let(get_time_worked_for_title(title, Some(t), rows), LAMBDA time_worked_seconds :
        Goal(title, estimate.val, format_hms(estimate.val), Some(t),
             IF deadline.kind = "ok" THEN Some(deadline.val) ELSE None,
             time_worked_seconds, format_hms(time_worked_seconds),
             IF deadline.kind = "ok"
             THEN Some(_calculate_start_by(estimate.val, deadline.val,
                                           time_worked_seconds, seconds_per_day,
                                           DateOf(t)))
             ELSE None))

\* prefokus_run, "Update existing goal": if args.estimate
EditedEstimate(g, estimate, t) ==
    IF estimate.kind = "ok"
    THEN [g EXCEPT !.estimate_seconds = estimate.val,
                   !.estimate_formatted = format_hms(estimate.val),
                   !.estimate_timestamp = Some(t)]
    ELSE g

\* a variant that stamps the estimate anew when the deadline is set
EditedDeadline_restamps(g, deadline, t) ==
    IF deadline.kind = "ok"
    THEN [g EXCEPT !.deadline = Some(deadline.val), !.estimate_timestamp = Some(t)]
    ELSE g

\* prefokus_run, "Update existing goal": if args.deadline
EditedDeadline(g, deadline, t) ==
    IF deadline.kind = "ok" THEN [g EXCEPT !.deadline = Some(deadline.val)] ELSE g

\* prefokus_run, "Update existing goal", from "Always update time_worked" on
Refreshed(g, rows, seconds_per_day, today) ==
    Let(get_time_worked_for_title(g.title, g.estimate_timestamp, rows), LAMBDA tw :
        [g EXCEPT
           !.time_worked_seconds = tw,
           !.time_worked_formatted = format_hms(tw),
           !.start_by =
               IF g.estimate_seconds > 0 /\ g.deadline # None
               THEN Some(_calculate_start_by(g.estimate_seconds, g.deadline[1], tw,
                                             seconds_per_day, today))
               ELSE @])

\* a variant that writes the estimate it was given before it returns
DeadlineRejected_estimate_saved(loaded, i, estimate, t) ==
    [rc |-> "1",
     file |-> IF i = 0 THEN loaded.file
              ELSE save_goals_csv([loaded.goals EXCEPT
                                      ![i] = EditedEstimate(@, estimate, t)])]

\* prefokus_run, the deadline does not parse: return 1, nothing is saved (for
\* an existing goal the estimate was assigned to the goal in memory only)
DeadlineRejected(loaded, i, estimate, t) == [rc |-> "1", file |-> loaded.file]

\* prefokus_run from "Find existing goal or create new one" on: loaded is
\* what load_goals_csv returned and rows the sessions read for the time
\* worked; file is what save_goals_csv writes when the status is "0"
PrefokusEdit(loaded, rows, title, estimate, deadline, seconds_per_day, t) ==
    Let(IndexOfTitle(loaded.goals, title), LAMBDA i :
        IF i = 0 /\ estimate.kind = "none" THEN [rc |-> "1", file |-> loaded.file]
        ELSE IF estimate.kind = "bad" THEN [rc |-> "1", file |-> loaded.file]
        ELSE IF deadline.kind = "bad" THEN DeadlineRejected(loaded, i, estimate, t)
        ELSE Let(IF i = 0
                 THEN Append(loaded.goals,
                             NewGoal(title, estimate, deadline, rows, seconds_per_day, t))
                 ELSE [loaded.goals EXCEPT
                         ![i] = Refreshed(EditedDeadline(EditedEstimate(@, estimate, t),
                                                         deadline, t),
                                          rows, seconds_per_day, DateOf(t))],
                 LAMBDA edited :
                 [rc |-> "0",
                  file |-> save_goals_csv(_update_time_worked(edited, rows,
                                                              seconds_per_day,
                                                              DateOf(t)))]))

\* prefokus_run: rc is the status returned ("raised" when an exception leaves
\* the function) and file is goals.csv afterwards.  Without a title the goals
\* are loaded and listed.
prefokus_run(file, sessFile, titleArg, estimate, deadline, seconds_per_day, t) ==
    Let(Strip(titleArg), LAMBDA title :
    Let(load_goals_csv(file, sessFile), LAMBDA loaded :
    Let(load_sessions_csv(sessFile).rows, LAMBDA rows :
        IF title = <<>> /\ (estimate.kind # "none" \/ deadline.kind # "none")
        THEN [rc |-> "1", file |-> file]
        ELSE IF ~loaded.ok THEN [rc |-> "raised", file |-> file]
        ELSE IF title = <<>> THEN [rc |-> "0", file |-> loaded.file]
        ELSE PrefokusEdit(loaded, rows, title, estimate, deadline, seconds_per_day, t))))

\* a variant that leaves start_by in place
Finished_keeps_start_by(g) ==
    [g EXCEPT !.estimate_seconds = 0, !.estimate_formatted = <<>>,
              !.estimate_timestamp = None, !.deadline = None]

\* finish_run, "Clear all other fields"
Finished(g) ==
    [g EXCEPT !.estimate_seconds = 0, !.estimate_formatted = <<>>,
              !.estimate_timestamp = None, !.deadline = None, !.start_by = None]

\* finish_run from "Find the goal with matching title" on
FinishEdit(loaded, title) ==
    LET found == {i \in 1..Len(loaded.goals) : Strip(loaded.goals[i].title) = title}
        first == CHOOSE i \in found : \A j \in found : i <= j
    IN  IF found = {} THEN [rc |-> "1", file |-> loaded.file]
        ELSE [rc |-> "0",
              file |-> save_goals_csv([loaded.goals EXCEPT ![first] = Finished(@)])]

\* finish_run
finish_run(file, sessFile, titleArg) ==
    Let(Strip(titleArg), LAMBDA title :
    Let(load_goals_csv(file, sessFile), LAMBDA loaded :
        IF title = <<>> THEN [rc |-> "1", file |-> file]
        ELSE IF ~loaded.ok THEN [rc |-> "raised", file |-> file]
        ELSE FinishEdit(loaded, title)))

\* ---------------------------------------------------------------- commands
\* a time given as HH:MM, val being the time of day
HhMmArg(v) == [kind |-> "ok", val |-> v, hh_mm |-> TRUE]

\* a variant that takes the present time when the option is absent
_parse_start_at_now(arg, duration_s, t) ==
    IF arg.kind = "none" THEN t
    ELSE IF "hh_mm" \in DOMAIN arg THEN DateOf(t) * TicksPerDay + arg.val
    ELSE arg.val

\* _parse_start: now - duration when the option is absent, the time an ISO
\* text gives, or that time of day today for HH:MM
_parse_start(arg, duration_s, t) ==
    IF arg.kind = "none" THEN t - duration_s * TicksPerSecond
    ELSE IF "hh_mm" \in DOMAIN arg THEN DateOf(t) * TicksPerDay + arg.val
    ELSE arg.val

\* _filter_rows_range: since and until are None or <<a day>>
_filter_rows_range(rows, since, until) ==
    SelectSeq(rows, LAMBDA r :
        /\ ~(since # None /\ DateOf(r.start) < since[1])
        /\ ~(until # None /\ DateOf(r.start) > until[1]))

\* a line of a report: what it is about (<<>> for all the sessions, a
\* title for a group), the quantity and the text printed for it
StatsLine(group, key, value) == [group |-> group, key |-> key, value |-> value]

\* sum(_get_duration(r) for r in rows if start >= from)
SumSince(rows, from) == SumDurations(SelectSeq(rows, LAMBDA r : r.start >= from))

\* the earliest start date of the rows
MinDate(rows) ==
    CHOOSE d \in {DateOf(rows[i].start) : i \in 1..Len(rows)} :
        \A i \in 1..Len(rows) : d <= DateOf(rows[i].start)

\* _avg_window over the rows that start in the days first..last
AvgWindow(rows, first, last) ==
    IF last - first + 1 <= 0 THEN 0
    ELSE SumDurations(SelectSeq(rows, LAMBDA r :
             DateOf(r.start) >= first /\ DateOf(r.start) <= last))
         \div (last - first + 1)

\* the report of _print_statistics for a filter that leaves no session
EmptyReport == <<StatsLine(<<>>, "sessions", Decimal(0))>>

\* the report of _print_statistics for the rows the filters left
FullReport(rows, t) ==
    LET total_seconds == SumDurations(rows)
        today == DateOf(t)
        today_start == today * TicksPerDay
        days_total == today - MinDate(rows) + 1
    IN  <<StatsLine(<<>>, "sessions", Decimal(Len(rows))),
          StatsLine(<<>>, "total", format_hms(total_seconds)),
          StatsLine(<<>>, "today", format_hms(SumSince(rows, today_start))),
          StatsLine(<<>>, "last 7 days",
                    format_hms(SumSince(rows, today_start - 6 * TicksPerDay))),
          StatsLine(<<>>, "last 30 days",
                    format_hms(SumSince(rows, today_start - 29 * TicksPerDay))),
          StatsLine(<<>>, "average per day",
                    format_hms(IF days_total > 0 THEN total_seconds \div days_total
                               ELSE 0)),
          StatsLine(<<>>, "average per day last 7 days",
                    format_hms(AvgWindow(rows, today - 6, today))),
          StatsLine(<<>>, "average per day last 30 days",
                    format_hms(AvgWindow(rows, today - 29, today))),
          StatsLine(<<>>, "average session length",
                    format_hms(total_seconds \div Len(rows)))>>

\* _print_statistics: title_filter is None or <<a title>>
_print_statistics(sessFile, title_filter, since, until, t) ==
    Let(load_sessions_csv(sessFile), LAMBDA loaded :
        IF ~loaded.ok THEN [rc |-> "raised", report |-> <<>>]
        ELSE Let(_filter_rows_range(
                     IF title_filter # None
                     THEN SelectSeq(loaded.rows, LAMBDA r : r.title = title_filter[1])
                     ELSE loaded.rows, since, until),
                 LAMBDA rows :
                 IF rows = <<>> THEN [rc |-> "0", report |-> EmptyReport]
                 ELSE [rc |-> "0", report |-> FullReport(rows, t)]))

\* a variant that groups by the title as it is written in the row
RECURSIVE Aggregated_untrimmed(_, _)
Aggregated_untrimmed(agg, r) ==
    IF agg = <<>>
    THEN <<[title |-> r.title, sessions |-> 1, total |-> r.duration]>>
    ELSE IF Head(agg).title = r.title
    THEN <<[Head(agg) EXCEPT !.sessions = @ + 1, !.total = @ + r.duration]>> \o Tail(agg)
    ELSE <<Head(agg)>> \o Aggregated_untrimmed(Tail(agg), r)

\* agg.setdefault(title, ...) and the two additions, for one row
RECURSIVE Aggregated(_, _)
Aggregated(agg, r) ==
    IF agg = <<>>
    THEN <<[title |-> Strip(r.title), sessions |-> 1, total |-> r.duration]>>
    ELSE IF Head(agg).title = Strip(r.title)
    THEN <<[Head(agg) EXCEPT !.sessions = @ + 1, !.total = @ + r.duration]>> \o Tail(agg)
    ELSE <<Head(agg)>> \o Aggregated(Tail(agg), r)

RECURSIVE AggregatedAll(_, _)
AggregatedAll(agg, rows) ==
    IF rows = <<>> THEN agg ELSE AggregatedAll(Aggregated(agg, Head(rows)), Tail(rows))

\* sorted(..., key=total, reverse=True): descending, equal totals in the
\* order they had
RECURSIVE InsertByTotal(_, _)
InsertByTotal(sorted, g) ==
    IF sorted = <<>> THEN <<g>>
    ELSE IF Head(sorted).total >= g.total
    THEN <<Head(sorted)>> \o InsertByTotal(Tail(sorted), g)
    ELSE <<g>> \o sorted

RECURSIVE SortedByTotal(_, _)
SortedByTotal(sorted, groups) ==
    IF groups = <<>> THEN sorted
    ELSE SortedByTotal(InsertByTotal(sorted, Head(groups)), Tail(groups))

T_unnamed == <<"(", "u", "n", "n", "a", "m", "e", "d", ")">>

RECURSIVE GroupLines(_)
GroupLines(items) ==
    IF items = <<>> THEN <<>>
    ELSE LET label == IF Head(items).title = <<>> THEN T_unnamed ELSE Head(items).title
         IN  <<StatsLine(label, "sessions", Decimal(Head(items).sessions)),
               StatsLine(label, "total", format_hms(Head(items).total))>>
             \o GroupLines(Tail(items))

\* _print_statistics_by_title
_print_statistics_by_title(sessFile, since, until) ==
    Let(load_sessions_csv(sessFile), LAMBDA loaded :
        IF ~loaded.ok THEN [rc |-> "raised", report |-> <<>>]
        ELSE Let(_filter_rows_range(loaded.rows, since, until), LAMBDA rows :
                 IF rows = <<>> THEN [rc |-> "0", report |-> EmptyReport]
                 ELSE [rc |-> "0",
                       report |-> GroupLines(SortedByTotal(<<>>,
                                                 AggregatedAll(<<>>, rows)))]))

\* _parse_since, _parse_until: None or <<the day>>
ParsedDay(arg) == IF arg.kind = "ok" THEN Some(arg.val) ELSE None

\* postfokus_run.  rc is the status returned ("raised" when an exception
\* leaves it), sessions and goals the two files afterwards, report what the
\* statistics printed.  With a duration the session is handed to
\* save_session_csv; without one the statistics are printed.
postfokus_run(sessFile, file, titleArg, durationArg, startArg, endArg, sinceArg, untilArg, titles, t) ==
    LET duration_s == durationArg.val
        end0 == IF endArg.kind = "ok" THEN Some(_parse_start(endArg, duration_s, t))
                ELSE None
        start == IF startArg.kind = "ok" THEN _parse_start(startArg, duration_s, t)
                 ELSE IF end0 # None THEN end0[1] - duration_s * TicksPerSecond
                 ELSE _parse_start(NoArg, duration_s, t)
        end == IF end0 = None THEN start + duration_s * TicksPerSecond ELSE end0[1]
        rejected == [rc |-> "2", sessions |-> sessFile, goals |-> file, report |-> <<>>]
    IN  IF sinceArg.kind = "bad" \/ untilArg.kind = "bad" THEN rejected
        ELSE IF durationArg.kind = "none"
        THEN Let(IF titles /\ titleArg = <<>>
                 THEN _print_statistics_by_title(sessFile, ParsedDay(sinceArg),
                                                 ParsedDay(untilArg))
                 ELSE _print_statistics(sessFile,
                                        IF titleArg = <<>> THEN None ELSE Some(titleArg),
                                        ParsedDay(sinceArg), ParsedDay(untilArg), t),
                 LAMBDA printed :
                 [rc |-> printed.rc, sessions |-> sessFile, goals |-> file,
                  report |-> printed.report])
        ELSE IF durationArg.kind = "bad" THEN rejected
        ELSE IF endArg.kind = "bad" \/ startArg.kind = "bad" THEN rejected
        ELSE Let(save_session_csv(sessFile, file, titleArg, start, end, duration_s),
                 LAMBDA saved :
                 [rc |-> IF saved.path = Raised THEN "raised" ELSE "0",
                  sessions |-> saved.sessions, goals |-> saved.goals,
                  report |-> <<>>])

\* ------------------------------------------------- the paused command line
UpperChars == <<"A", "B", "C", "D", "E", "F", "G", "H", "I", "J", "K", "L", "M",
                "N", "O", "P", "Q", "R", "S", "T", "U", "V", "W", "X", "Y", "Z">>
LowerChars == <<"a", "b", "c", "d", "e", "f", "g", "h", "i", "j", "k", "l", "m",
                "n", "o", "p", "q", "r", "s", "t", "u", "v", "w", "x", "y", "z">>

LowerChar(c) ==
    IF \E i \in 1..26 : UpperChars[i] = c
    THEN LowerChars[CHOOSE i \in 1..26 : UpperChars[i] = c]
    ELSE c

\* str.lower()
Lower(s) == [i \in 1..Len(s) |-> LowerChar(s[i])]

\* str.startswith
StartsWith(s, prefix) ==
    Len(s) >= Len(prefix) /\ SubSeq(s, 1, Len(prefix)) = prefix

\* shlex.split on text without backslashes: words are split at blanks, a
\* quoted stretch belongs to its word, and an unclosed quote is an error
RECURSIVE ShlexScan(_, _, _, _, _)
ShlexScan(s, parts, word, inWord, quote) ==
    IF s = <<>>
    THEN IF quote # "" THEN [ok |-> FALSE, parts |-> <<>>]
         ELSE [ok |-> TRUE, parts |-> IF inWord THEN Append(parts, word) ELSE parts]
    ELSE LET c == Head(s)
         IN  IF quote # ""
             THEN IF c = quote
                  THEN ShlexScan(Tail(s), parts, word, TRUE, "")
                  ELSE ShlexScan(Tail(s), parts, Append(word, c), TRUE, quote)
             ELSE IF c = "'" \/ c = "\""
             THEN ShlexScan(Tail(s), parts, word, TRUE, c)
             ELSE IF c = " "
             THEN ShlexScan(Tail(s), IF inWord THEN Append(parts, word) ELSE parts,
                            <<>>, FALSE, "")
             ELSE ShlexScan(Tail(s), parts, Append(word, c), TRUE, "")

\* str.split()
RECURSIVE SplitScan(_, _, _)
SplitScan(s, parts, word) ==
    IF s = <<>> THEN IF word # <<>> THEN Append(parts, word) ELSE parts
    ELSE IF Head(s) = " "
         THEN SplitScan(Tail(s), IF word # <<>> THEN Append(parts, word) ELSE parts, <<>>)
         ELSE SplitScan(Tail(s), parts, Append(word, Head(s)))

\* "parts = shlex.split(cmd_line)", falling back to cmd_line.split()
SaveParts(cmd_line) ==
    LET sh == ShlexScan(cmd_line, <<>>, <<>>, FALSE, "")
    IN  IF sh.ok THEN sh.parts ELSE SplitScan(cmd_line, <<>>, <<>>)

W_save == <<"s", "a", "v", "e">>
W_title == <<"-", "-", "t", "i", "t", "l", "e">>

\* a variant that takes the word after save for the title
TitleFlag_positional(parts) == IF Len(parts) >= 2 THEN Some(parts[2]) ELSE None

\* the value after the first --title, when there is one
TitleFlag(parts) ==
    LET at == {i \in 1..Len(parts) : Lower(parts[i]) = W_title}
        i == CHOOSE k \in at : \A j \in at : k <= j
    IN  IF at = {} THEN None
        ELSE IF i + 1 <= Len(parts) THEN Some(parts[i + 1]) ELSE None

\* _parse_save_command: whether the line is taken as a save command
IsSaveLine(line) == StartsWith(Lower(Strip(line)), W_save)

\* _parse_save_command
_parse_save_command(cmd_line) ==
    LET line == Strip(cmd_line)
        parts == SaveParts(line)
    IN  IF ~IsSaveLine(cmd_line) THEN [is_save |-> FALSE, title |-> None]
        ELSE IF Len(parts) = 1 /\ Lower(parts[1]) = W_save
             THEN [is_save |-> TRUE, title |-> None]
             ELSE [is_save |-> TRUE, title |-> TitleFlag(parts)]

W_s == <<"s">>
W_cancel == <<"c", "a", "n", "c", "e", "l">>
W_discard == <<"d", "i", "s", "c", "a", "r", "d">>
W_d == <<"d">>
W_resume == <<"r", "e", "s", "u", "m", "e">>
W_continue == <<"c", "o", "n", "t", "i", "n", "u", "e">>
W_r == <<"r">>

\* a variant that knows d alone as the discard command
CommandKind_d_only(cmd) ==
    IF cmd = W_s THEN "save"
    ELSE IF _parse_save_command(cmd).is_save THEN "save"
    ELSE IF cmd = W_d THEN "discard"
    ELSE IF cmd \in {W_resume, W_continue, W_r, <<>>} THEN "resume"
    ELSE "invalid"

\* a variant that does not know continue
CommandKind_no_continue(cmd) ==
    IF cmd = W_s THEN "save"
    ELSE IF _parse_save_command(cmd).is_save THEN "save"
    ELSE IF cmd \in {W_cancel, W_discard, W_d} THEN "discard"
    ELSE IF cmd \in {W_resume, W_r, <<>>} THEN "resume"
    ELSE "invalid"

\* fokus_run's dispatch of the stripped line: what the paused loop does with it
CommandKind(cmd) ==
    IF cmd = W_s THEN "save"
    ELSE IF _parse_save_command(cmd).is_save THEN "save"
    ELSE IF cmd \in {W_cancel, W_discard, W_d} THEN "discard"
    ELSE IF cmd \in {W_resume, W_continue, W_r, <<>>} THEN "resume"
    ELSE "invalid"

\* the title the save command stores
SaveTitle(cmd, args_title) ==
    LET parsed == _parse_save_command(cmd)
        save_title == IF cmd = W_s THEN args_title
                      ELSE IF parsed.title # None THEN parsed.title
                      ELSE args_title
    IN  IF save_title = None THEN <<>> ELSE save_title[1]

\* -------------------------------------------------------------------- state
VARIABLES
    now,            \* the wall clock, in ticks
    sessions,       \* sessions.csv: the rows after the header
    goalsFile,      \* goals.csv: the rows after the header
    op,             \* the last operation on the ledgers
    loads,          \* the last two of the goal-ledger loads made in a row
    sessionLoad,    \* None, or <<what load_sessions_csv last returned>>
    pc,             \* where fokus_run stands
    outcome,        \* how fokus_run ended
    args_title,     \* args.title: None or <<text>>
    start,          \* fokus_run's start
    paused, accumulated, run_started, pause_started,
    held,           \* (fd, old): None, or <<the terminal mode to restore>>
    termMode,       \* the terminal's input mode
    loopNow,        \* the loop's "now"
    elapsed, last_whole,
    cmd,            \* the last command line read, stripped
    lines,          \* command lines read by this session
    runTicks,       \* ticks that passed while this session was running
    enteredWith,    \* the terminal mode when fokus_run was called
    appended,       \* rows this session appended to sessions.csv
    call,           \* the pure function last applied, with its arguments
    result,         \* what that application returned: <<value>>, or None when it raised
    procs,          \* the commands running at once, each with where it stands
    clock           \* the "clock" setting _tick_render finds: digital, bar or dots

NoCall == [f |-> "none"]

ledgerVars == <<sessions, goalsFile, op, loads, sessionLoad>>
timerVars == <<pc, outcome, args_title, start, paused, accumulated, run_started,
               pause_started, held, termMode, loopNow, elapsed, last_whole, cmd,
               lines, runTicks, enteredWith, appended, clock>>
vars == <<now, sessions, goalsFile, op, loads, sessionLoad,
          pc, outcome, args_title, start, paused, accumulated, run_started,
          pause_started, held, termMode, loopNow, elapsed, last_whole, cmd,
          lines, runTicks, enteredWith, appended, call, result, procs, clock>>

MaxLines == 3         \* command lines one session may read

\* the inputs the operations are tried with
Durations == {1, 2}
DurationArgs == {BadArg} \cup {OkArg(d) : d \in Durations}
\* --since and --until, as they are given together
RangeArgs == {<<NoArg, NoArg>>, <<BadArg, NoArg>>, <<NoArg, BadArg>>}
StartArgs == {NoArg, BadArg}
EndArgs == {NoArg, BadArg}
EstimateArgs == {NoArg, BadArg, OkArg(1)}
DeadlineArgs == {NoArg, BadArg, OkArg(2)}
WorkPerDay == {1}
GoalTitleArgs == {T_a_sp}
FinishTitleArgs == {T_a_sp, T_b}
FokusTitles == {None, Some(T_b)}

C_save_title_a == <<"s", "a", "v", "e", " ", "-", "-", "t", "i", "t", "l", "e", " ", "a">>
C_save_b_title_a == W_save \o <<" ">> \o T_b \o <<" ">> \o W_title \o <<" ">> \o T_a
C_save_a == W_save \o <<" ">> \o T_a
C_saved == <<"s", "a", "v", "e", "d">>
C_quit == <<"q", "u", "i", "t">>
C_SAVE == <<"S", "A", "V", "E">>
C_Discard == <<"D", "i", "s", "c", "a", "r", "d">>
C_Resume == <<"R", "e", "s", "u", "m", "e">>
CommandLines ==
    {W_save, C_save_title_a, C_save_b_title_a, C_save_a, W_s, C_saved, W_discard, W_cancel, W_d,
     W_resume, W_continue, W_r, <<>>, C_quit, C_SAVE, C_Discard, C_Resume}

\* fokus_run not yet called
TimerIdle ==
    /\ pc = "idle" /\ outcome = "none" /\ args_title = None /\ start = 0
    /\ paused = FALSE /\ accumulated = 0 /\ run_started = 0
    /\ pause_started = None /\ held = None /\ termMode = "cooked"
    /\ loopNow = 0 /\ elapsed = 0 /\ last_whole = -1 /\ cmd = <<>>
    /\ lines = 0 /\ runTicks = 0 /\ enteredWith = "cooked" /\ appended = 0

DEFAULT_CLOCK == "bar"

TimerInit == TimerIdle /\ clock = DEFAULT_CLOCK

Init ==
    /\ now = 0
    /\ sessions = <<>> /\ goalsFile = <<>>
    /\ op = "none" /\ loads = <<>> /\ sessionLoad = None /\ procs = <<>> /\ call = NoCall /\ result = None
    /\ TimerInit

\* the clock advances
Tick ==
    /\ now < MaxTime
    /\ now' = now + 1
    /\ runTicks' = IF pc \in {"init_render", "running"} THEN runTicks + 1 ELSE runTicks
    /\ UNCHANGED ledgerVars /\ UNCHANGED <<clock, procs, call, result>>
    /\ UNCHANGED <<pc, outcome, args_title, start, paused, accumulated, run_started,
                   pause_started, held, termMode, loopNow, elapsed, last_whole, cmd,
                   lines, enteredWith, appended>>

\* ------------------------------------------------- operations on the ledgers
\* hiper postfokus --duration ...: a past session is backfilled
Backfill ==
    \E titleArg \in TitleArgs, d \in DurationArgs \cup {NoArg}, sa \in StartArgs,
       ea \in EndArgs, range \in RangeArgs :
        \E r \in {postfokus_run(sessions, goalsFile, titleArg, d, sa, ea,
                                range[1], range[2], FALSE, now)} :
            /\ Len(sessions) < MaxRows
            /\ sessions' = r.sessions
            /\ goalsFile' = r.goals
            /\ op' = IF r.rc # "0" THEN "append rejected"
                      ELSE IF d.kind = "none" THEN "statistics" ELSE "append"
            /\ loads' = IF r.rc = "0" /\ d.kind = "ok" THEN <<>> ELSE loads
            /\ UNCHANGED <<procs, call, result, now, sessionLoad>> /\ UNCHANGED timerVars

\* storage.load_goals_csv() called on its own (hiper prefokus without a title
\* lists what it returns)
LoadGoals ==
    \E r \in {load_goals_csv(goalsFile, sessions)} :
    \E This \in {[goals |-> r.goals, wrote |-> r.wrote, before |-> goalsFile]} :
        /\ r.ok
        /\ goalsFile' = r.file
        /\ op' = "load"
        /\ loads' = IF loads = <<>> THEN <<This>> ELSE <<loads[Len(loads)], This>>
        /\ UNCHANGED <<procs, call, result, now, sessions, sessionLoad>> /\ UNCHANGED timerVars

\* hiper prefokus --title ... [--estimate ...] [--deadline ...]
Prefokus ==
    \E titleArg \in GoalTitleArgs, e \in EstimateArgs, dl \in DeadlineArgs,
       w \in WorkPerDay :
        \E r \in {prefokus_run(goalsFile, sessions, titleArg, e, dl, w, now)} :
            /\ goalsFile' = r.file
            /\ op' = IF r.rc = "0" THEN "edit"
                      ELSE IF e.kind = "bad" \/ dl.kind = "bad" THEN "edit rejected"
                      ELSE op
            /\ loads' = <<>>
            /\ UNCHANGED <<procs, call, result, now, sessions, sessionLoad>> /\ UNCHANGED timerVars

\* hiper finish --title ...
Finish ==
    \E titleArg \in FinishTitleArgs :
        \E r \in {finish_run(goalsFile, sessions, titleArg)} :
            /\ goalsFile' = r.file
            /\ op' = IF r.rc = "0" THEN "finish" ELSE "finish failed"
            /\ loads' = <<>>
            /\ UNCHANGED <<procs, call, result, now, sessions, sessionLoad>> /\ UNCHANGED timerVars

StoreNext == Tick \/ Backfill \/ LoadGoals \/ Prefokus \/ Finish
SpecStore == Init /\ [][StoreNext]_vars

\* ------------------------------------------- a session ledger found on disk
\* sessions.csv is a text file the user may have edited: a field is empty,
\* parses, or does not parse
RawTimes == {<<>>, Some(0), BadText}
RawDurations == {<<>>, Some(1), BadText}
RawRows ==
    {[title |-> T_a, start |-> s, end |-> e, duration |-> d] :
        s \in RawTimes, e \in RawTimes, d \in RawDurations}
RawLedgers == UNION {[1..n -> RawRows] : n \in 0..MaxRows}

LedgerInit ==
    /\ now = 0
    /\ sessions \in RawLedgers /\ goalsFile = <<>>
    /\ op = "none" /\ loads = <<>> /\ sessionLoad = None /\ procs = <<>> /\ call = NoCall /\ result = None
    /\ TimerInit

\* storage.load_sessions_csv() is called
ReadSessions ==
    /\ sessionLoad' = Some(load_sessions_csv(sessions))
    /\ UNCHANGED <<procs, call, result, now, sessions, goalsFile, op, loads>> /\ UNCHANGED timerVars

SpecLedger == LedgerInit /\ [][ReadSessions]_vars

\* hiper postfokus on a session ledger found on disk
SpecAppend == LedgerInit /\ [][Backfill]_vars

\* ------------------------------------------------------ a session backfilled
\* hiper postfokus --duration d [--start s] [--end e] [--title t], run once
\* at some time of the day on an empty data directory.  A start or an end is
\* absent, not a time, an ISO time (yesterday, or later today) or HH:MM.
BackfillTimes == {NoArg, BadArg, OkArg(-1), OkArg(2), HhMmArg(0), HhMmArg(1)}
BackfillArgs ==
    [title : {<<>>, T_a_sp}, duration : Durations, start : BackfillTimes,
     end : BackfillTimes]

BackfillAt ==
    \E a \in BackfillArgs :
        \E r \in {postfokus_run(sessions, goalsFile, a.title, OkArg(a.duration),
                                a.start, a.end, NoArg, NoArg, FALSE, now)} :
            /\ call = NoCall
            /\ call' = [f |-> "postfokus_run", args |-> a, at |-> now]
            /\ result' = Some([rc |-> r.rc, report |-> r.report])
            /\ sessions' = r.sessions /\ goalsFile' = r.goals
            /\ op' = IF r.rc = "0" THEN "append" ELSE "append rejected"
            /\ UNCHANGED <<procs, now, loads, sessionLoad>> /\ UNCHANGED timerVars

SpecBackfill == Init /\ [][Tick \/ BackfillAt]_vars

\* ---------------------------------------------------------------- fokus_run
\* int((now - run_started).total_seconds())
WholeSeconds(ticks) == ticks \div TicksPerSecond

\* _restore_mode(fd, old): the terminal mode afterwards
_restore_mode(h, mode) == IF h # None THEN h[1] ELSE mode

\* a variant that saves the settings and leaves the terminal as it is
_set_raw_mode_saves_only(mode) == [held |-> Some(mode), termMode |-> mode]

\* _set_raw_mode(): (fd, old) as returned, and the terminal mode afterwards
_set_raw_mode(mode) == [held |-> Some(mode), termMode |-> "cbreak"]

\* fokus_run with a --goal that is not a duration: status 1 at once
FokusRejected ==
    /\ pc = "idle"
    /\ pc' = "done" /\ outcome' = "rejected"
    /\ enteredWith' = termMode
    /\ UNCHANGED <<clock, procs, call, result, now>> /\ UNCHANGED ledgerVars
    /\ UNCHANGED <<args_title, start, paused, accumulated, run_started,
                   pause_started, held, termMode, loopNow, elapsed, last_whole, cmd,
                   lines, runTicks, appended>>

\* fokus_run up to the initial render: the goals are loaded for the estimate
\* bar (a failure is printed and dropped) and single-key capture is entered
FokusStart ==
    \E title \in FokusTitles, estimate_bar_enabled \in BOOLEAN :
        \E reads \in {estimate_bar_enabled /\ title # None /\ title[1] # <<>>},
           r \in {load_goals_csv(goalsFile, sessions)} :
            /\ pc = "idle"
            /\ pc' = "init_render" /\ outcome' = "none"
            /\ args_title' = title /\ start' = now
            /\ goalsFile' = IF reads /\ r.ok THEN r.file ELSE goalsFile
            /\ op' = IF reads /\ r.ok THEN "load" ELSE op
            /\ loads' = <<>>
            /\ paused' = FALSE /\ accumulated' = 0 /\ run_started' = now
            /\ pause_started' = None
            /\ enteredWith' = termMode
            /\ \E m \in {_set_raw_mode(termMode)} : held' = m.held /\ termMode' = m.termMode
            /\ UNCHANGED <<clock, procs, call, result, now, sessions, sessionLoad, loopNow, elapsed, last_whole,
                           cmd, lines, runTicks, appended>>

\* "Initial render" returns and the try block is entered
InitialRender ==
    /\ pc = "init_render"
    /\ pc' = "running" /\ last_whole' = -1
    /\ UNCHANGED <<clock, procs, call, result, now>> /\ UNCHANGED ledgerVars
    /\ UNCHANGED <<outcome, args_title, start, paused, accumulated, run_started,
                   pause_started, held, termMode, loopNow, elapsed, cmd, lines,
                   runTicks, enteredWith, appended>>

\* "Initial render" raises: the call stands before the try block, so the
\* exception leaves fokus_run at once
InitialRenderRaises ==
    /\ pc = "init_render"
    /\ pc' = "done" /\ outcome' = "raised"
    /\ UNCHANGED <<clock, procs, call, result, now>> /\ UNCHANGED ledgerVars
    /\ UNCHANGED <<args_title, start, paused, accumulated, run_started,
                   pause_started, held, termMode, loopNow, elapsed, last_whole, cmd,
                   lines, runTicks, enteredWith, appended>>

\* Ctrl+C arrives during "Initial render": KeyboardInterrupt is raised before
\* the try block and leaves fokus_run as any other exception does
InitialRenderInterrupted ==
    /\ pc = "init_render"
    /\ pc' = "done" /\ outcome' = "interrupt escaped"
    /\ UNCHANGED <<clock, procs, call, result, now>> /\ UNCHANGED ledgerVars
    /\ UNCHANGED <<args_title, start, paused, accumulated, run_started,
                   pause_started, held, termMode, loopNow, elapsed, last_whole, cmd,
                   lines, runTicks, enteredWith, appended>>

\* one turn of the loop while running: no key, or a key other than space
Poll ==
    /\ pc = "running"
    /\ loopNow' = now
    /\ elapsed' = accumulated + WholeSeconds(now - run_started)
    /\ last_whole' = elapsed'
    /\ UNCHANGED <<clock, procs, call, result, now>> /\ UNCHANGED ledgerVars
    /\ UNCHANGED <<pc, outcome, args_title, start, paused, accumulated, run_started,
                   pause_started, held, termMode, cmd, lines, runTicks, enteredWith,
                   appended>>

\* a variant that forgets the spans before this one
PausedAccumulated_last_span(accumulated_, t, run_started_) == WholeSeconds(t - run_started_)

\* accumulated += int((now - run_started).total_seconds())
PausedAccumulated(accumulated_, t, run_started_) ==
    accumulated_ + WholeSeconds(t - run_started_)

\* one turn of the loop while running: space was pressed; the loop then goes
\* round to the prompt and waits for a line
Pause ==
    /\ pc = "running"
    /\ accumulated' = PausedAccumulated(accumulated, now, run_started)
    /\ paused' = TRUE
    /\ pause_started' = Some(now)
    /\ termMode' = _restore_mode(held, termMode) /\ held' = None
    /\ loopNow' = now
    /\ elapsed' = accumulated'
    /\ last_whole' = elapsed'
    /\ pc' = "prompt"
    /\ UNCHANGED <<clock, procs, call, result, now>> /\ UNCHANGED ledgerVars
    /\ UNCHANGED <<outcome, args_title, start, run_started, cmd, lines, runTicks,
                   enteredWith, appended>>

\* a variant that stores the wall-clock time since the session's start
_handle_save_wallclock(sessFile, file, title, start_, end, elapsed_s) ==
    save_session_csv(sessFile, file, IF title = None THEN <<>> ELSE title[1],
                     start_, end, WholeSeconds(end - start_))

\* _handle_save: what save_session_csv is called with
_handle_save(sessFile, file, title, start_, end, elapsed_s) ==
    save_session_csv(sessFile, file, IF title = None THEN <<>> ELSE title[1],
                     start_, end, elapsed_s)

\* a line is read at the prompt and is "s" or a save command
Save ==
    \E line \in CommandLines :
        \E c \in {Strip(line)} :
            /\ pc = "prompt" /\ lines < MaxLines
            /\ CommandKind(c) = "save"
            /\ \E r \in {_handle_save(sessions, goalsFile, Some(SaveTitle(c, args_title)),
                                      start, loopNow, elapsed)} :
                   sessions' = r.sessions /\ goalsFile' = r.goals
            /\ cmd' = c /\ lines' = lines + 1
            /\ op' = "append" /\ loads' = <<>>
            /\ appended' = appended + 1
            /\ termMode' = _restore_mode(held, termMode) /\ held' = None
            /\ pc' = "done" /\ outcome' = "saved"
            /\ UNCHANGED <<clock, procs, call, result, now, sessionLoad, args_title, start, paused, accumulated,
                           run_started, pause_started, loopNow, elapsed, last_whole,
                           runTicks, enteredWith>>

\* a line is read at the prompt and is cancel, discard or d
Discard ==
    \E line \in CommandLines :
        \E c \in {Strip(line)} :
            /\ pc = "prompt" /\ lines < MaxLines
            /\ CommandKind(c) = "discard"
            /\ cmd' = c /\ lines' = lines + 1
            /\ termMode' = _restore_mode(held, termMode) /\ held' = None
            /\ pc' = "done" /\ outcome' = "discarded"
            /\ UNCHANGED <<clock, procs, call, result, now>> /\ UNCHANGED ledgerVars
            /\ UNCHANGED <<args_title, start, paused, accumulated, run_started,
                           pause_started, loopNow, elapsed, last_whole, runTicks,
                           enteredWith, appended>>

\* a line is read at the prompt and is resume, continue, r or empty
Resume ==
    \E line \in CommandLines :
        \E c \in {Strip(line)} :
            /\ pc = "prompt" /\ lines < MaxLines
            /\ CommandKind(c) = "resume"
            /\ cmd' = c /\ lines' = lines + 1
            /\ \E m \in {_set_raw_mode(termMode)} : held' = m.held /\ termMode' = m.termMode
            /\ paused' = FALSE
            /\ run_started' = now
            /\ pause_started' = None
            /\ last_whole' = -1
            /\ pc' = "running"
            /\ UNCHANGED <<clock, procs, call, result, now>> /\ UNCHANGED ledgerVars
            /\ UNCHANGED <<outcome, args_title, start, accumulated, loopNow, elapsed,
                           runTicks, enteredWith, appended>>

\* a line is read at the prompt and is none of these: the paused line is
\* printed again and the loop goes round to the prompt
InvalidCommand ==
    \E line \in CommandLines :
        \E c \in {Strip(line)} :
            /\ pc = "prompt" /\ lines < MaxLines
            /\ CommandKind(c) = "invalid"
            /\ cmd' = c /\ lines' = lines + 1
            /\ loopNow' = now
            /\ elapsed' = accumulated
            /\ last_whole' = elapsed'
            /\ UNCHANGED <<clock, procs, call, result, now>> /\ UNCHANGED ledgerVars
            /\ UNCHANGED <<pc, outcome, args_title, start, paused, accumulated,
                           run_started, pause_started, held, termMode, runTicks,
                           enteredWith, appended>>

\* a variant that leaves the running span out
InterruptedElapsed_frozen(paused_, accumulated_, t, run_started_) == accumulated_

\* the elapsed time "except KeyboardInterrupt" computes
InterruptedElapsed(paused_, accumulated_, t, run_started_) ==
    IF paused_ THEN accumulated_
    ELSE accumulated_ + WholeSeconds(t - run_started_)

\* Ctrl+C inside the try block: "except KeyboardInterrupt", then "finally"
Interrupt ==
    /\ pc \in {"running", "prompt"}
    /\ elapsed' = InterruptedElapsed(paused, accumulated, now, run_started)
    /\ termMode' = _restore_mode(held, termMode) /\ held' = None
    /\ pc' = "done" /\ outcome' = "interrupted"
    /\ UNCHANGED <<clock, procs, call, result, now>> /\ UNCHANGED ledgerVars
    /\ UNCHANGED <<args_title, start, paused, accumulated, run_started,
                   pause_started, loopNow, last_whole, cmd, lines, runTicks,
                   enteredWith, appended>>

\* the rows of goals.csv that are on disk when a rewrite is cut short
Prefixes(file) == {SubSeq(file, 1, n) : n \in 0..Len(file)}

\* a save line is read and Ctrl+C arrives inside _handle_save: before the row
\* is written, after it, while load_goals_csv rewrites goals.csv, or after
\* that; KeyboardInterrupt passes save_session_csv's "except Exception" and
\* reaches "except KeyboardInterrupt", then "finally"
SaveInterrupted ==
    \E line \in CommandLines, stage \in {"before the row", "after the row", "after the reconcile"} :
        \E c \in {Strip(line)} :
            /\ pc = "prompt" /\ lines < MaxLines
            /\ CommandKind(c) = "save"
            /\ \E r \in {_handle_save(sessions, goalsFile, Some(SaveTitle(c, args_title)),
                                      start, loopNow, elapsed)} :
                   /\ sessions' = IF stage = "before the row" THEN sessions ELSE r.sessions
                   /\ goalsFile' \in IF stage = "before the row" \/ r.goals = goalsFile
                                     THEN {goalsFile}
                                     ELSE IF stage = "after the row"
                                     THEN {goalsFile} \cup Prefixes(r.goals)
                                     ELSE {r.goals}
            /\ cmd' = c /\ lines' = lines + 1
            /\ op' = IF stage = "before the row" THEN op ELSE "append"
            /\ loads' = IF stage = "before the row" THEN loads ELSE <<>>
            /\ appended' = IF stage = "before the row" THEN appended ELSE appended + 1
            /\ elapsed' = InterruptedElapsed(paused, accumulated, now, run_started)
            /\ termMode' = _restore_mode(held, termMode) /\ held' = None
            /\ pc' = "done" /\ outcome' = "interrupted"
            /\ UNCHANGED <<clock, procs, call, result, now, sessionLoad, args_title, start, paused, accumulated,
                           run_started, pause_started, loopNow, last_whole,
                           runTicks, enteredWith>>

\* _tick_render raises inside the loop: "finally", and the exception leaves
LoopRaises ==
    /\ pc = "running"
    /\ termMode' = _restore_mode(held, termMode) /\ held' = None
    /\ pc' = "done" /\ outcome' = "raised"
    /\ UNCHANGED <<clock, procs, call, result, now>> /\ UNCHANGED ledgerVars
    /\ UNCHANGED <<args_title, start, paused, accumulated, run_started,
                   pause_started, loopNow, elapsed, last_whole, cmd, lines, runTicks,
                   enteredWith, appended>>

TimerNext ==
    \/ FokusRejected \/ FokusStart \/ InitialRender \/ InitialRenderRaises \/ Poll \/ Pause
    \/ Save \/ Discard \/ Resume \/ InvalidCommand \/ Interrupt \/ LoopRaises
    \/ InitialRenderInterrupted \/ SaveInterrupted

\* the ledgers a timer session finds: empty, or holding one backfilled session
FoundLedgers ==
    {[rc |-> "0", sessions |-> <<>>, goals |-> <<>>, report |-> <<>>],
     postfokus_run(<<>>, <<>>, T_a_sp, OkArg(1), NoArg, NoArg, NoArg, NoArg, FALSE, 0)}

FokusInit ==
    /\ now = 0
    /\ \E l \in FoundLedgers : sessions = l.sessions /\ goalsFile = l.goals
    /\ op = "none" /\ loads = <<>> /\ sessionLoad = None /\ procs = <<>> /\ call = NoCall /\ result = None
    /\ TimerInit

Next == Tick \/ TimerNext
Spec == FokusInit /\ [][Next]_vars

\* the values hiper set --clock stores
Clocks == {"digital", "bar", "dots"}

\* the dots clock: minutes = elapsed_s // 60, one dot for each
Dots(elapsed_s) == elapsed_s \div 60

\* a timer session under each of the clock settings, over empty ledgers
ClockInit ==
    /\ now = 0
    /\ sessions = <<>> /\ goalsFile = <<>>
    /\ op = "none" /\ loads = <<>> /\ sessionLoad = None /\ procs = <<>>
    /\ call = NoCall /\ result = None
    /\ TimerIdle /\ clock \in Clocks

SpecClock == ClockInit /\ [][Next]_vars

\* ------------------------------------------------------------ statistics
\* hiper postfokus without a duration, over the session ledgers it may find:
\* up to MaxRows rows of two titles, started today or yesterday, some with a
\* start that does not parse, some started a week or a month ago, some
\* entered with a start that is tomorrow.
StatsStarts == {Some(0), Some(-1), Some(TicksPerDay), Some(-7 * TicksPerDay),
                Some(-30 * TicksPerDay), BadText}
\* a second, and half a minute: long enough for an average over 7 or 30 days
StatsDurations == {1, 30}
\* titles as they lie in the file: two names, one of them also with a space
\* after it, no title, and a title of one space
StatsTitles == {T_a, T_a_sp, T_b, <<>>, <<" ">>}
StatsRows ==
    {[title |-> ti, start |-> s, end |-> Some(0), duration |-> Some(d)] :
        ti \in StatsTitles, s \in StatsStarts, d \in StatsDurations}
StatsLedgers == UNION {[1..n -> StatsRows] : n \in 0..MaxRows}

StatsTitleArgs == {<<>>, T_a, T_b}
StatsRangeArgs == {<<NoArg, NoArg>>, <<OkArg(0), NoArg>>, <<NoArg, OkArg(-1)>>,
                   <<OkArg(1), NoArg>>, <<BadArg, NoArg>>}

StatsInit ==
    /\ now = 0
    /\ sessions \in StatsLedgers /\ goalsFile = <<>>
    /\ op = "none" /\ loads = <<>> /\ sessionLoad = None /\ procs = <<>> /\ call = NoCall /\ result = None
    /\ TimerInit

\* hiper postfokus [--title t] [--titles] [--since d] [--until d]
Statistics ==
    \E titleArg \in StatsTitleArgs, range \in StatsRangeArgs, titles \in BOOLEAN :
        \E r \in {postfokus_run(sessions, goalsFile, titleArg, NoArg, NoArg, NoArg,
                                range[1], range[2], titles, now)} :
            /\ call = NoCall
            /\ call' = [f |-> "postfokus_run",
                        args |-> [title |-> titleArg, since |-> range[1],
                                  until |-> range[2], titles |-> titles]]
            /\ result' = Some([rc |-> r.rc, report |-> r.report])
            /\ sessions' = r.sessions /\ goalsFile' = r.goals
            /\ UNCHANGED <<procs, now, op, loads, sessionLoad>> /\ UNCHANGED timerVars

SpecStats == StatsInit /\ [][Statistics]_vars

\* ------------------------------------------------- commands run at once
\* Two hiper processes at work on the same data directory.  Each runs one
\* command; what a command reads from and writes to the two files are
\* separate steps, in the order of the code, and the steps of the two
\* processes interleave.  A process keeps in snap the rows of goals.csv it
\* read and in loaded the goals it holds in memory (loaded.file being what it
\* writes next).
MaxProcs == 2

RaceCommand(kind, title, estimate, deadline) ==
    [kind |-> kind, title |-> title, estimate |-> estimate, deadline |-> deadline]

\* hiper postfokus --duration 1s --title ..., hiper prefokus --title a with
\* an estimate or a deadline, hiper finish --title a, and a bare load
RaceCommands ==
    {RaceCommand("append", T_a, NoArg, NoArg), RaceCommand("append", T_b, NoArg, NoArg),
     RaceCommand("prefokus", T_a_sp, OkArg(1), NoArg),
     RaceCommand("prefokus", T_a_sp, NoArg, OkArg(2)),
     RaceCommand("finish", T_a_sp, NoArg, NoArg),
     RaceCommand("load", <<>>, NoArg, NoArg)}

NotLoaded == [ok |-> TRUE, goals |-> <<>>, wrote |-> FALSE, file |-> <<>>]

Process(command) ==
    [cmd |-> command, pc |-> IF command.kind = "append" THEN "append" ELSE "read",
     snap |-> <<>>, loaded |-> NotLoaded, rc |-> "none"]

\* the ledgers the processes find: none, or a session of title a and its
\* goal with an estimate of 2s and a deadline, made at tick 0
RaceLedgers ==
    {[sessions |-> <<>>, goals |-> <<>>],
     [sessions |-> <<SessionRow(T_a, -2, 0, 1)>>,
      goals |-> prefokus_run(<<>>, <<SessionRow(T_a, -2, 0, 1)>>, T_a_sp, OkArg(2),
                             OkArg(2), 1, 0).file]}

RaceInit ==
    /\ now = 1
    /\ \E found \in RaceLedgers : sessions = found.sessions /\ goalsFile = found.goals
    /\ op = "none" /\ loads = <<>> /\ sessionLoad = None
    /\ call = NoCall /\ result = None
    /\ TimerInit
    /\ procs \in [1..MaxProcs -> {Process(c) : c \in RaceCommands}]

\* where a command goes on after load_goals_csv has returned
AfterLoad(command) == IF command.kind \in {"append", "load"} THEN "done" ELSE "edit"

\* a variant of the write that keeps the rows whose titles it does not hold
WriteGoals_merging(current, mine) ==
    mine \o SelectSeq(current, LAMBDA row :
                \A i \in 1..Len(mine) : mine[i].title # row.title)

\* save_goals_csv opens goals.csv for writing: what was there is gone
WriteGoals(current, mine) == mine

\* save_session_csv: the row is appended to sessions.csv
RaceAppendRow(p) ==
    /\ procs[p].pc = "append"
    /\ sessions' = Append(sessions,
                          SessionRow(procs[p].cmd.title, now - TicksPerSecond, now, 1))
    /\ procs' = [procs EXCEPT ![p].pc = "read"]
    /\ UNCHANGED <<now, goalsFile, op, loads, sessionLoad, call, result>>
    /\ UNCHANGED timerVars

\* load_goals_csv: goals.csv is read
RaceReadGoals(p) ==
    /\ procs[p].pc = "read"
    /\ procs' = [procs EXCEPT ![p].pc = "reconcile", ![p].snap = goalsFile]
    /\ UNCHANGED <<now, sessions, goalsFile, op, loads, sessionLoad, call, result>>
    /\ UNCHANGED timerVars

\* load_goals_csv: sessions.csv is read and the goals are reconciled with it
RaceReconcile(p) ==
    /\ procs[p].pc = "reconcile"
    /\ \E l \in {load_goals_csv(procs[p].snap, sessions)} :
           procs' = [procs EXCEPT
                        ![p].loaded = l,
                        ![p].pc = IF ~l.ok THEN "done"
                                  ELSE IF l.wrote THEN "write"
                                  ELSE AfterLoad(procs[p].cmd),
                        ![p].rc = IF ~l.ok THEN "raised"
                                  ELSE IF ~l.wrote /\ AfterLoad(procs[p].cmd) = "done"
                                  THEN "0" ELSE @]
    /\ UNCHANGED <<now, sessions, goalsFile, op, loads, sessionLoad, call, result>>
    /\ UNCHANGED timerVars

\* load_goals_csv: save_goals_csv, when a goal was entered or a time changed
RaceWriteReconciled(p) ==
    /\ procs[p].pc = "write"
    /\ goalsFile' = WriteGoals(goalsFile, procs[p].loaded.file)
    /\ procs' = [procs EXCEPT
                    ![p].pc = AfterLoad(procs[p].cmd),
                    ![p].rc = IF AfterLoad(procs[p].cmd) = "done" THEN "0" ELSE @]
    /\ UNCHANGED <<now, sessions, op, loads, sessionLoad, call, result>>
    /\ UNCHANGED timerVars

\* prefokus_run and finish_run after the load: the goal is edited in memory,
\* prefokus_run reading sessions.csv again for the time worked
RaceEdit(p) ==
    /\ procs[p].pc = "edit"
    /\ \E r \in {IF procs[p].cmd.kind = "finish"
                 THEN FinishEdit(procs[p].loaded, Strip(procs[p].cmd.title))
                 ELSE PrefokusEdit(procs[p].loaded, load_sessions_csv(sessions).rows,
                                   Strip(procs[p].cmd.title), procs[p].cmd.estimate,
                                   procs[p].cmd.deadline, 1, now)} :
           procs' = [procs EXCEPT
                        ![p].loaded.file = r.file,
                        ![p].pc = IF r.rc = "0" THEN "save" ELSE "done",
                        ![p].rc = IF r.rc = "0" THEN @ ELSE r.rc]
    /\ UNCHANGED <<now, sessions, goalsFile, op, loads, sessionLoad, call, result>>
    /\ UNCHANGED timerVars

\* prefokus_run and finish_run: save_goals_csv
RaceSave(p) ==
    /\ procs[p].pc = "save"
    /\ goalsFile' = WriteGoals(goalsFile, procs[p].loaded.file)
    /\ procs' = [procs EXCEPT ![p].pc = "done", ![p].rc = "0"]
    /\ UNCHANGED <<now, sessions, op, loads, sessionLoad, call, result>>
    /\ UNCHANGED timerVars

RaceNext ==
    \E p \in 1..MaxProcs :
        \/ RaceAppendRow(p) \/ RaceReadGoals(p) \/ RaceReconcile(p)
        \/ RaceWriteReconciled(p) \/ RaceEdit(p) \/ RaceSave(p)

SpecRace == RaceInit /\ [][RaceNext]_vars

\* ------------------------------------------------------- pure functions
\* The functions of the program that depend on their arguments alone, each
\* applied once to arguments drawn from bounded sets.  call holds the
\* function and its arguments; result is None until it is applied, then
\* <<the value returned>>, or Raised.
MaxSeconds == 5
MaxPerDay == 3
MaxDay == 4
MaxToday == 1

MaxFormatted == 130
MaxText == 3

\* str.isdigit and int() on a run of digits
IsDigit(ch) == \E d \in 1..10 : DigitChars[d] = ch
DigitValue(ch) == (CHOOSE d \in 1..10 : DigitChars[d] = ch) - 1
RECURSIVE IntOf(_)
IntOf(num) ==
    IF num = <<>> THEN 0
    ELSE 10 * IntOf(SubSeq(num, 1, Len(num) - 1)) + DigitValue(num[Len(num)])

\* parse_duration's loop from position i on, with the digits num read since
\* the last unit and the total so far; ok is FALSE when it raises
RECURSIVE ScanDuration(_, _, _, _)
ScanDuration(s, i, num, total) ==
    IF i > Len(s)
    THEN [ok |-> TRUE, total |-> IF num # <<>> THEN total + IntOf(num) * 60 ELSE total]
    ELSE IF IsDigit(s[i]) THEN ScanDuration(s, i + 1, Append(num, s[i]), total)
    ELSE IF s[i] \in {"h", "m", "s"}
    THEN IF num = <<>> THEN [ok |-> FALSE, total |-> total]
         ELSE ScanDuration(s, i + 1, <<>>,
                           total + IntOf(num) * (IF s[i] = "h" THEN 3600
                                                 ELSE IF s[i] = "m" THEN 60 ELSE 1))
    ELSE [ok |-> FALSE, total |-> total]

\* a variant that passes over the characters it does not know
RECURSIVE ScanDuration_skipping(_, _, _, _)
ScanDuration_skipping(s, i, num, total) ==
    IF i > Len(s)
    THEN [ok |-> TRUE, total |-> IF num # <<>> THEN total + IntOf(num) * 60 ELSE total]
    ELSE IF IsDigit(s[i]) THEN ScanDuration_skipping(s, i + 1, Append(num, s[i]), total)
    ELSE IF s[i] \in {"h", "m", "s"}
    THEN IF num = <<>> THEN [ok |-> FALSE, total |-> total]
         ELSE ScanDuration_skipping(s, i + 1, <<>>,
                           total + IntOf(num) * (IF s[i] = "h" THEN 3600
                                                 ELSE IF s[i] = "m" THEN 60 ELSE 1))
    ELSE ScanDuration_skipping(s, i + 1, num, total)
parse_duration_skipping(text) ==
    Let(ScanDuration_skipping(Lower(Strip(text)), 1, <<>>, 0), LAMBDA r :
        IF Strip(text) = <<>> \/ ~r.ok \/ r.total <= 0 THEN Raised ELSE Some(r.total))

\* a variant that lets a total of zero through
parse_duration_accepts_zero(text) ==
    Let(ScanDuration(Lower(Strip(text)), 1, <<>>, 0), LAMBDA r :
        IF Strip(text) = <<>> \/ ~r.ok THEN Raised ELSE Some(r.total))

\* a variant that knows the unit letters in lower case only
parse_duration_case_sensitive(text) ==
    Let(ScanDuration(Strip(text), 1, <<>>, 0), LAMBDA r :
        IF Strip(text) = <<>> \/ ~r.ok \/ r.total <= 0 THEN Raised ELSE Some(r.total))

\* parse_duration: <<the seconds>>, or Raised for a ValueError
parse_duration(text) ==
    Let(ScanDuration(Lower(Strip(text)), 1, <<>>, 0), LAMBDA r :
        IF Strip(text) = <<>> \/ ~r.ok \/ r.total <= 0 THEN Raised ELSE Some(r.total))

\* the seconds format_hms is applied to: every count up to MaxFormatted, and
\* counts around the hour, the day and the hundredth hour
FormattedSeconds ==
    0..MaxFormatted \cup {3599, 3600, 3601, 3661, 35999, 36000, 86399, 86400,
                          359999, 360000, 360001}

\* the texts parse_duration is applied to: every text of up to MaxText of
\* these characters, and some longer ones
DurationChars == {"0", "1", "9", "h", "m", "s", "H", " ", "x"}
RECURSIVE TextsUpTo(_)
TextsUpTo(n) ==
    IF n = 0 THEN {<<>>}
    ELSE TextsUpTo(n - 1) \cup {Append(t, c) : t \in TextsUpTo(n - 1), c \in DurationChars}
T_1h30m == <<"1", "h", "3", "0", "m">>
T_100h == <<"1", "0", "0", "h">>
T_2H_padded == <<" ", "2", "H", "0", "5", " ">>
T_90s90 == <<"9", "0", "s", "9", "0">>
DurationTexts == TextsUpTo(MaxText) \cup {T_1h30m, T_100h, T_2H_padded, T_90s90}

\* 20h of work at 8h a day, due on the 9th, asked on the 1st
StartByExample ==
    [estimate_seconds |-> 72000, deadline |-> 9, time_worked_seconds |-> 0,
     seconds_per_day |-> 28800, today |-> 1]

StartByArgs ==
    [estimate_seconds : 0..MaxSeconds, deadline : 0..MaxDay,
     time_worked_seconds : 0..MaxSeconds, seconds_per_day : 1..MaxPerDay,
     today : 0..MaxToday] \cup {StartByExample}

StartByCalls == {[f |-> "_calculate_start_by", args |-> a] : a \in StartByArgs}

\* ---- Python floats (IEEE 754 binary64) of the bar's arithmetic.  A quotient
\* of small integers is held as [digits, scale]: digits a number written in
\* base 256, first digit first and as large as it needs to be, and the value
\* is that number divided by 2^scale.
Precision == 53
Base == 256

\* the number of bits of n > 0
BitLen(n) == CHOOSE k \in 1..31 : 2^(k - 1) <= n /\ (k = 31 \/ n < 2^k)

BitLenBig(digits) ==
    LET i == CHOOSE k \in 1..Len(digits) : digits[k] # 0 /\ \A j \in 1..(k - 1) : digits[j] = 0
    IN  BitLen(digits[i]) + 8 * (Len(digits) - i)

\* the k with 2^k <= a / b < 2^(k + 1), for a and b below 2^13
Log2(a, b) ==
    CHOOSE k \in -13..13 :
        IF k >= 0 THEN b * 2^k <= a /\ a < b * 2^(k + 1)
        ELSE b <= a * 2^(-k) /\ a * 2^(-k - 1) < b

\* long division by b of what is left, n more digits
RECURSIVE LongDiv(_, _, _, _)
LongDiv(digits, r, b, n) ==
    IF n = 0 THEN [digits |-> digits, r |-> r]
    ELSE LongDiv(Append(digits, (r * Base) \div b), (r * Base) % b, b, n - 1)

\* digits with the carries taken out of all but the first
RECURSIVE Carried(_)
Carried(digits) ==
    IF Len(digits) = 1 THEN digits
    ELSE LET n == Len(digits)
             front == SubSeq(digits, 1, n - 1)
         IN  Append(Carried([front EXCEPT ![n - 1] = @ + digits[n] \div Base]),
                    digits[n] % Base)

\* a / b for integers a > 0, b > 0: the nearest float, ties to even
FloatDiv(a, b) ==
    LET scale == (Precision - 1) - Log2(a, b)
        first == a * 2^(scale % 8)
        d == LongDiv(<<first \div b>>, first % b, b, scale \div 8)
        n == Len(d.digits)
        up == 2 * d.r > b \/ (2 * d.r = b /\ d.digits[n] % 2 = 1)
    IN  [digits |-> Carried([d.digits EXCEPT ![n] = @ + (IF up THEN 1 ELSE 0)]),
         scale |-> scale]

\* x * w for a float x > 0 and an integer 0 < w < 128: the nearest float, ties
\* to even
FloatMul(x, w) ==
    LET p == Carried([i \in 1..Len(x.digits) |-> x.digits[i] * w])
        n == Len(p)
        d == BitLenBig(p) - Precision
        rest == p[n] % 2^d
        last == IF d < 8 THEN (p[n] \div 2^d) % 2 ELSE p[n - 1] % 2
        up == d > 0 /\ (2 * rest > 2^d \/ (2 * rest = 2^d /\ last = 1))
    IN  [digits |-> Carried([p EXCEPT ![n] = @ - rest + (IF up THEN 2^d ELSE 0)]),
         scale |-> x.scale]

RECURSIVE IntOf256(_)
IntOf256(digits) ==
    IF Len(digits) = 1 THEN digits[1]
    ELSE Base * IntOf256(SubSeq(digits, 1, Len(digits) - 1)) + digits[Len(digits)]

\* int(x) for a float x > 0 below 2^31
FloatInt(x) ==
    LET whole == Len(x.digits) - x.scale \div 8
    IN  IF whole < 1 THEN 0
        ELSE IntOf256(SubSeq(x.digits, 1, whole)) \div 2^(x.scale % 8)

\* int((a / b) * w) as Python computes it, for integers a >= 0, b > 0, w > 0
IntOfScaled(a, b, w) == IF a = 0 THEN 0 ELSE FloatInt(FloatMul(FloatDiv(a, b), w))

Min(a, b) == IF a <= b THEN a ELSE b

\* _tick_render, clock == "bar": the filled and the empty cells of the bar and
\* the percentage after it
BarLine(elapsed_s, target_s, bar_width) ==
    LET filled == Min(IntOfScaled(elapsed_s, target_s, bar_width), bar_width)
    IN  [filled |-> filled, empty |-> bar_width - filled,
         percent |-> IF elapsed_s >= target_s THEN 100
                     ELSE IntOfScaled(elapsed_s, target_s, 100)]

MaxBarElapsed == 45
BarTargets == {1, 3, 22, 60}
BarWidths == {1, 22, 42}
BarArgs == [elapsed_s : 0..MaxBarElapsed, target_s : BarTargets, bar_width : BarWidths]
BarCalls == {[f |-> "_tick_render", args |-> a] : a \in BarArgs}

FormatCalls == {[f |-> "format_hms", args |-> n] : n \in FormattedSeconds}
ParseCalls == {[f |-> "parse_duration", args |-> t] : t \in DurationTexts}

Calls == StartByCalls \cup FormatCalls \cup ParseCalls \cup BarCalls

\* One application is asked for; nothing else of the program is running.
CalcInit ==
    /\ now = 0 /\ sessions = <<>> /\ goalsFile = <<>>
    /\ op = "none" /\ loads = <<>> /\ sessionLoad = None /\ procs = <<>>
    /\ TimerInit
    /\ call \in Calls /\ result = None

CallStartBy ==
    /\ call.f = "_calculate_start_by" /\ result = None
    /\ \E a \in {call.args} :
           result' = Some(_calculate_start_by(a.estimate_seconds, a.deadline,
                              a.time_worked_seconds, a.seconds_per_day, a.today))
    /\ UNCHANGED <<procs, call, now>> /\ UNCHANGED ledgerVars /\ UNCHANGED timerVars

\* format_hms, and parse_duration of the text it gives
CallFormatHms ==
    /\ call.f = "format_hms" /\ result = None
    /\ \E text \in {format_hms(call.args)} :
           result' = Some([text |-> text, parsed |-> parse_duration(text)])
    /\ UNCHANGED <<procs, call, now>> /\ UNCHANGED ledgerVars /\ UNCHANGED timerVars

\* parse_duration, and, when it returns, parse_duration of format_hms of
\* what it returned
CallParseDuration ==
    /\ call.f = "parse_duration" /\ result = None
    /\ \E parsed \in {parse_duration(call.args)} :
           result' = Some([parsed |-> parsed,
                           again |-> IF parsed = Raised THEN None
                                     ELSE parse_duration(format_hms(parsed[1]))])
    /\ UNCHANGED <<procs, call, now>> /\ UNCHANGED ledgerVars /\ UNCHANGED timerVars

\* _tick_render in bar mode draws the bar for an elapsed time
CallTickRender ==
    /\ call.f = "_tick_render" /\ result = None
    /\ result' = Some(BarLine(call.args.elapsed_s, call.args.target_s, call.args.bar_width))
    /\ UNCHANGED <<procs, call, now>> /\ UNCHANGED ledgerVars /\ UNCHANGED timerVars

CalcNext == CallStartBy \/ CallFormatHms \/ CallParseDuration \/ CallTickRender

SpecCalc == CalcInit /\ [][CalcNext]_vars

\* ================================================================ properties
\* the rows of a session ledger whose fields all parse
WellFormed(r) ==
    /\ r.start # <<>> /\ r.start # BadText
    /\ r.end # <<>> /\ r.end # BadText
    /\ r.duration # BadText
WellFormedRows(sessFile) ==
    LET kept == SelectSeq(sessFile, WellFormed)
    IN  [i \in 1..Len(kept) |->
            [title |-> kept[i].title, start |-> kept[i].start[1],
             end |-> kept[i].end[1],
             duration |-> IF kept[i].duration = <<>> THEN 0 ELSE kept[i].duration[1]]]

\* the sum of the durations of the sessions of a title, from the tick "after"
\* on when one is given
SumOfTitle(sessFile, title, after) ==
    LET rows == WellFormedRows(sessFile)
        counted == {i \in 1..Len(rows) :
                       /\ Strip(rows[i].title) = Strip(title)
                       /\ (after = None \/ rows[i].start >= after[1])}
        RECURSIVE Sum(_)
        Sum(S) == IF S = {} THEN 0
                  ELSE LET i == CHOOSE j \in S : TRUE
                       IN  rows[i].duration + Sum(S \ {i})
    IN  Sum(counted)

\* the trimmed non-blank titles of a session ledger
SessionTitlesOf(sessFile) ==
    {Strip(sessFile[i].title) : i \in 1..Len(sessFile)} \ {<<>>}

\* the records of a goal ledger that carry a title
GoalsTitled(file, title) == {i \in 1..Len(file) : Strip(file[i].title) = title}

\* C2, as the specification states it: every record of the persisted goal
\* ledger has time_worked_seconds equal to the sum of the durations of the
\* sessions of its title, counted from estimate_timestamp on when it has one.
C2_TimeWorkedIsWindowedSum ==
    \A i \in 1..Len(goalsFile) :
        goalsFile[i].time_worked_seconds =
            SumOfTitle(sessions, goalsFile[i].title, goalsFile[i].estimate_timestamp)

\* C3: of two loads of the goal ledger made in a row, the second returns what
\* the first returned and does not rewrite goals.csv; a load rewrites it only
\* when it entered a goal or changed a time_worked_seconds.
C3_LoadGoalsIdempotent ==
    /\ Len(loads) = 2 => loads[2].goals = loads[1].goals /\ ~loads[2].wrote
    /\ \A k \in 1..Len(loads) :
          loads[k].wrote =>
              \/ Len(loads[k].goals) # Len(loads[k].before)
              \/ \E i \in 1..Len(loads[k].goals) :
                    loads[k].goals[i].time_worked_seconds
                        # loads[k].before[i].time_worked_seconds

\* two loads in a row, the first of which rewrote goals.csv
C3_Witness ==
    /\ Len(loads) = 2 /\ loads[1].wrote /\ loads[2].goals # <<>>
    /\ op = "load"

\* C4: after an append to the session ledger and after a load of the goal
\* ledger every trimmed non-blank session title has exactly one goal record,
\* and a record entered by that step has no estimate, no estimate_timestamp,
\* no deadline, no start_by and the time of all the sessions of its title.
C4_OneGoalPerSessionTitle ==
    [][op' \in {"append", "load"} =>
          \A t \in SessionTitlesOf(sessions') :
              /\ Cardinality(GoalsTitled(goalsFile', t)) = 1
              /\ GoalsTitled(goalsFile, t) = {} =>
                    LET g == goalsFile'[CHOOSE i \in GoalsTitled(goalsFile', t) : TRUE]
                    IN  /\ g.estimate_seconds = 0
                        /\ g.estimate_timestamp = None
                        /\ g.deadline = None
                        /\ g.start_by = None
                        /\ g.time_worked_seconds = SumOfTitle(sessions', t, None)]_vars

\* two sessions of one title were appended: its goal was entered by the first
\* append and carries the time of both
C4_Witness ==
    /\ op = "append" /\ Len(sessions) = 2
    /\ \E i \in 1..Len(goalsFile) :
          /\ goalsFile[i].title = T_a
          /\ goalsFile[i].estimate_seconds = 0
          /\ goalsFile[i].time_worked_seconds = 3
          /\ SumOfTitle(sessions, T_a, None) = 3

\* C5, as the specification states it: load_sessions_csv does not fail on a
\* ledger with corrupt rows and returns the rows whose fields all parse.
C5_CorruptRowsSkipped ==
    sessionLoad # None =>
        /\ sessionLoad[1].ok
        /\ sessionLoad[1].rows = WellFormedRows(sessions)

\* the command lines the specification names for the paused state
SaveLines == {W_save, C_save_title_a}
DiscardLines == {W_discard, W_cancel}
ResumeLines == {W_resume, W_continue, <<>>}

\* a step of the paused loop that reads a command line and carries it out
\* without being interrupted
ReadsLine == pc = "prompt" /\ lines' = lines + 1 /\ outcome' # "interrupted"

\* C1, as the specification states it: at every pause the elapsed time is the
\* time the session has spent running (in whole seconds), whatever the number
\* of pauses, and accumulated holds it.
C1_ElapsedIsRunningTime ==
    pc = "prompt" =>
        elapsed = accumulated /\ accumulated = WholeSeconds(runTicks)

\* C6, as the specification states it: however fokus_run ends, the terminal is
\* back in the input mode it had when fokus_run was called.
C6_TerminalRestored ==
    pc = "done" => termMode = enteredWith

\* C7: a save command read while paused appends one row to the session ledger,
\* with the command's or the session's title and duration = accumulated, and
\* ends the session as saved; a session never appends a second row.
C7_SaveAppendsOneRow ==
    [][/\ appended' <= 1
       /\ (ReadsLine /\ cmd' \in SaveLines) =>
             /\ Len(sessions') = Len(sessions) + 1
             /\ SubSeq(sessions', 1, Len(sessions)) = sessions
             /\ sessions'[Len(sessions')].duration = Some(accumulated)
             /\ sessions'[Len(sessions')].title =
                   (IF cmd' = C_save_title_a THEN T_a
                    ELSE IF args_title = None THEN <<>> ELSE args_title[1])
             /\ elapsed = accumulated
             /\ appended' = 1
             /\ pc' = "done" /\ outcome' = "saved"]_vars

\* a session that ran a second, was paused twice and was saved under the
\* title of the command
C7_Witness ==
    /\ outcome = "saved" /\ cmd = C_save_title_a /\ lines = 2 /\ accumulated = 1
    /\ Len(sessions) = 2
    /\ sessions[2].duration = Some(1) /\ sessions[2].title = T_a

\* C8: discard or cancel read while paused ends the session as discarded and
\* leaves sessions.csv and goals.csv as they were.
C8_DiscardKeepsLedgers ==
    [][(ReadsLine /\ cmd' \in DiscardLines) =>
          /\ pc' = "done" /\ outcome' = "discarded"
          /\ sessions' = sessions /\ goalsFile' = goalsFile
          /\ appended' = 0]_vars

\* a session that ran a second was cancelled over a ledger that holds a row
C8_Witness ==
    /\ outcome = "discarded" /\ cmd = W_cancel /\ accumulated = 1
    /\ sessions # <<>> /\ goalsFile # <<>>

C10_OtherLinesKeepPaused ==
    [][(ReadsLine /\ cmd' \notin SaveLines \cup DiscardLines \cup ResumeLines) =>
          /\ pc' = "prompt" /\ paused'
          /\ UNCHANGED <<accumulated, run_started, pause_started, termMode,
                         sessions, goalsFile>>]_vars

\* C11, as the specification states it: a line read while paused acts as its
\* lower-case form does, whatever the case of its letters: save saves,
\* discard and cancel discard, resume and continue resume.
C11_CommandsIgnoreCase ==
    [][ReadsLine =>
          /\ Lower(cmd') = W_save => pc' = "done" /\ outcome' = "saved"
          /\ Lower(cmd') \in DiscardLines => pc' = "done" /\ outcome' = "discarded"
          /\ Lower(cmd') \in {W_resume, W_continue} => pc' = "running" /\ ~paused']_vars

\* The least whole number of bs that cover a
Ceil(a, b) == CHOOSE k \in 0..a : k * b >= a /\ (k - 1) * b < a

\* C12: _calculate_start_by returns today when the remaining work, estimate
\* less time worked, is nothing or less; otherwise it returns the day before
\* the deadline moved back by one day less than the whole days the remaining
\* work needs, so that the deadline day itself is never a working day.
C12_StartBy ==
    call.f = "_calculate_start_by" /\ result # None =>
        LET a == call.args
            remaining == a.estimate_seconds - a.time_worked_seconds
        IN  IF remaining <= 0 THEN result = Some(a.today)
            ELSE /\ result = Some((a.deadline - 1) - (Ceil(remaining, a.seconds_per_day) - 1))
                 /\ result[1] < a.deadline

\* 20h due on the 9th at 8h a day with nothing worked: start by the 6th
C12_Witness ==
    /\ call = [f |-> "_calculate_start_by", args |-> StartByExample]
    /\ result = Some(6)

\* C13, as the specification states it: every goal in goals.csv that has an
\* estimate and a deadline carries the start_by that _calculate_start_by
\* gives for its present time_worked_seconds: with work remaining, the day
\* counted back from the deadline; with none remaining, a "today" of some
\* day up to the present one.
C13_StartByIsCurrent ==
    \A i \in 1..Len(goalsFile), w \in WorkPerDay :
        LET g == goalsFile[i]
        IN  g.estimate_seconds > 0 /\ g.deadline # None =>
                /\ g.start_by # None
                /\ IF g.estimate_seconds - g.time_worked_seconds <= 0
                   THEN g.start_by[1] \in 0..DateOf(now)
                   ELSE g.start_by[1] =
                            _calculate_start_by(g.estimate_seconds, g.deadline[1],
                                g.time_worked_seconds, w, DateOf(now))

\* C14: whatever has been done to the ledgers, a goal in goals.csv has a
\* start_by only if it has an estimate above zero and a deadline.
C14_StartByOnlyWithEstimateAndDeadline ==
    \A i \in 1..Len(goalsFile) :
        goalsFile[i].start_by # None =>
            goalsFile[i].estimate_seconds > 0 /\ goalsFile[i].deadline # None

\* a goal carries a start_by after a session was appended and reconciled
C14_Witness ==
    /\ op = "append"
    /\ \E i \in 1..Len(goalsFile) : goalsFile[i].start_by # None

\* the steps in which hiper prefokus --title t --estimate e [--deadline d]
\* succeeds, for an estimate e that parses
SetsEstimate(titleArg, e, dl, w) ==
    /\ e.kind = "ok"
    /\ prefokus_run(goalsFile, sessions, titleArg, e, dl, w, now).rc = "0"
    /\ goalsFile' = prefokus_run(goalsFile, sessions, titleArg, e, dl, w, now).file
    /\ op' = "edit" /\ sessions' = sessions /\ now' = now

\* C15, as the specification states it: setting the estimate of a goal
\* leaves it in goals.csv with estimate_seconds the estimate given,
\* estimate_timestamp the present time, and time_worked_seconds the sum of
\* the sessions of its title that start at or after that time.
C15_SetEstimateRestartsWindow ==
    [][\A titleArg \in GoalTitleArgs, e \in EstimateArgs, dl \in DeadlineArgs,
          w \in WorkPerDay :
           SetsEstimate(titleArg, e, dl, w) =>
               \A i \in GoalsTitled(goalsFile', Strip(titleArg)) :
                   /\ goalsFile'[i].estimate_seconds = e.val
                   /\ goalsFile'[i].estimate_timestamp = Some(now)
                   /\ goalsFile'[i].time_worked_seconds =
                          SumOfTitle(sessions, titleArg, Some(now))]_vars

\* the steps in which hiper prefokus --title t --deadline d, without an
\* estimate, succeeds: the title then has a goal already
SetsDeadline(titleArg, dl, w) ==
    /\ dl.kind = "ok"
    /\ prefokus_run(goalsFile, sessions, titleArg, NoArg, dl, w, now).rc = "0"
    /\ goalsFile' = prefokus_run(goalsFile, sessions, titleArg, NoArg, dl, w, now).file
    /\ op' = "edit" /\ sessions' = sessions /\ now' = now

\* C16: setting the deadline of a goal that exists leaves it in goals.csv
\* with the deadline given and with the estimate_seconds and
\* estimate_timestamp it had.
C16_SetDeadlineKeepsEstimate ==
    [][\A titleArg \in GoalTitleArgs, dl \in DeadlineArgs, w \in WorkPerDay :
           SetsDeadline(titleArg, dl, w) =>
               \A i \in GoalsTitled(goalsFile, Strip(titleArg)),
                  j \in GoalsTitled(goalsFile', Strip(titleArg)) :
                   /\ goalsFile'[j].deadline = Some(dl.val)
                   /\ goalsFile'[j].estimate_seconds = goalsFile[i].estimate_seconds
                   /\ goalsFile'[j].estimate_timestamp = goalsFile[i].estimate_timestamp]_vars

\* a goal that came from a session title and was never estimated has been
\* given a deadline
C16_Witness ==
    /\ op = "edit"
    /\ \E i \in 1..Len(goalsFile) :
           /\ goalsFile[i].deadline # None
           /\ goalsFile[i].estimate_seconds = 0
           /\ goalsFile[i].estimate_timestamp = None

\* the steps in which hiper finish --title t returns 0
Finishes(titleArg) ==
    /\ finish_run(goalsFile, sessions, titleArg).rc = "0"
    /\ goalsFile' = finish_run(goalsFile, sessions, titleArg).file
    /\ op' = "finish" /\ now' = now

\* C17, as the specification states it: finishing a goal that goals.csv
\* holds leaves that goal with estimate_seconds 0 and no estimate_formatted,
\* estimate_timestamp, deadline or start_by, with the time_worked_seconds
\* and time_worked_formatted it had; every other goal and sessions.csv are
\* as they were.
C17_FinishClearsEstimateOnly ==
    [][\A titleArg \in FinishTitleArgs :
           Finishes(titleArg) /\ GoalsTitled(goalsFile, Strip(titleArg)) # {} =>
               /\ sessions' = sessions
               /\ Len(goalsFile') = Len(goalsFile)
               /\ \A i \in 1..Len(goalsFile) :
                      IF i \in GoalsTitled(goalsFile, Strip(titleArg))
                      THEN goalsFile'[i] =
                               [Finished(goalsFile[i]) EXCEPT
                                   !.title = goalsFile'[i].title,
                                   !.time_worked_seconds = goalsFile[i].time_worked_seconds,
                                   !.time_worked_formatted = goalsFile[i].time_worked_formatted]
                      ELSE goalsFile'[i] = goalsFile[i]]_vars

\* the steps in which hiper finish --title t is run for a title that
\* goals.csv has no record of
FinishesUnknown(titleArg) ==
    /\ Strip(titleArg) # <<>>
    /\ GoalsTitled(goalsFile, Strip(titleArg)) = {}
    /\ goalsFile' = finish_run(goalsFile, sessions, titleArg).file
    /\ op' = "finish failed" /\ sessions' = sessions /\ now' = now

\* the estimate, deadline, start_by and time_worked fields of a goal
PlanFields(g) ==
    <<g.estimate_seconds, g.estimate_formatted, g.estimate_timestamp, g.deadline,
      g.start_by, g.time_worked_seconds, g.time_worked_formatted>>

\* C18, as the specification states it: finishing a title that goals.csv
\* has no record of returns a status other than 0 and leaves the estimate,
\* deadline, start_by and time_worked fields of every goal as they were.
C18_FinishUnknownChangesNothing ==
    [][\A titleArg \in FinishTitleArgs :
           FinishesUnknown(titleArg) =>
               /\ finish_run(goalsFile, sessions, titleArg).rc # "0"
               /\ \A i \in 1..Len(goalsFile) :
                      /\ i <= Len(goalsFile')
                      /\ PlanFields(goalsFile'[i]) = PlanFields(goalsFile[i])]_vars

\* C19, as the specification states it: parse_duration of format_hms(s) is
\* s, for every whole number of seconds s from zero on.
C19_ParseOfFormat ==
    call.f = "format_hms" /\ result # None => result[1].parsed = Some(call.args)

\* C19, amended: parse_duration of format_hms(s) is s for every whole number
\* of seconds s from one on; format_hms(0) is "00m00s", which parse_duration
\* rejects as it rejects every total that is not above zero.
C19_ParseOfFormatAboveZero ==
    call.f = "format_hms" /\ result # None =>
        IF call.args >= 1 THEN result[1].parsed = Some(call.args)
        ELSE result[1].text = <<"0", "0", "m", "0", "0", "s">> /\ result[1].parsed = Raised

\* an hour and a second has been formatted with its hours and parsed back
C19_Witness ==
    /\ call = [f |-> "format_hms", args |-> 3601]
    /\ result # None
    /\ result[1].text = <<"0", "1", "h", "0", "0", "m", "0", "1", "s">>
    /\ result[1].parsed = Some(3601)

\* C20: whenever parse_duration accepts a text, what it returns is above
\* zero, and parse_duration of format_hms of it returns the same.
C20_ParseIsPositiveAndStable ==
    call.f = "parse_duration" /\ result # None /\ result[1].parsed # Raised =>
        /\ result[1].parsed[1] > 0
        /\ result[1].again = result[1].parsed

\* " 2H05 ", trimmed and lowered, is two hours and five minutes
C20_Witness ==
    /\ call = [f |-> "parse_duration", args |-> T_2H_padded]
    /\ result # None
    /\ result[1].parsed = Some(7500)
    /\ result[1].again = Some(7500)

\* what parse_duration scans: the text trimmed and in lower case
Scanned(text) == Lower(Strip(text))
UnitChars == {"h", "m", "s"}

\* the text is empty or blank
IsBlank(text) == Strip(text) = <<>>
\* some unit letter of the text has no digit right before it
HasBareUnit(text) ==
    \E i \in 1..Len(Scanned(text)) :
        /\ Scanned(text)[i] \in UnitChars
        /\ (i = 1 \/ ~IsDigit(Scanned(text)[i - 1]))
\* some character of the text is neither a digit nor a unit letter
HasForeignChar(text) ==
    \E i \in 1..Len(Scanned(text)) :
        ~IsDigit(Scanned(text)[i]) /\ Scanned(text)[i] \notin UnitChars
\* the text is digits and units in order, and every digit is a zero
TotalsZero(text) ==
    /\ ~IsBlank(text) /\ ~HasBareUnit(text) /\ ~HasForeignChar(text)
    /\ \A i \in 1..Len(Scanned(text)) :
           IsDigit(Scanned(text)[i]) => Scanned(text)[i] = "0"

\* C21: parse_duration raises, and returns nothing, for a text that is
\* empty or blank, that has a unit letter without digits before it, that
\* has a character other than a digit or h, m, s, or whose total is not
\* above zero; and it raises for no other text.
C21_ParseRejects ==
    call.f = "parse_duration" /\ result # None =>
        (result[1].parsed = Raised <=>
            \/ IsBlank(call.args) \/ HasBareUnit(call.args)
            \/ HasForeignChar(call.args) \/ TotalsZero(call.args))

\* "0h0" has digits and units in order and a total of zero: it was rejected
C21_Witness ==
    /\ call = [f |-> "parse_duration", args |-> <<"0", "h", "0">>]
    /\ result # None /\ result[1].parsed = Raised

\* the estimate, its timestamp, the deadline and start_by of every goal
EstimateFields(file) ==
    [i \in 1..Len(file) |->
        <<file[i].estimate_seconds, file[i].estimate_timestamp, file[i].deadline,
          file[i].start_by>>]

\* the goals of file, in their places, have the EstimateFields they have in
\* goalsFile (goals may have been entered after them)
KeepsEstimateFields(file) ==
    /\ Len(file) >= Len(goalsFile)
    /\ SubSeq(EstimateFields(file), 1, Len(goalsFile)) = EstimateFields(goalsFile)

C23_SessionsAppendOnly ==
    /\ [](\A titleArg \in TitleArgs, d \in Durations :
            LET r == postfokus_run(sessions, goalsFile, titleArg, OkArg(d), NoArg, NoArg,
                                   NoArg, NoArg, FALSE, now)
            IN  /\ r.rc = "0"
                /\ Len(r.sessions) = Len(sessions) + 1
                /\ SubSeq(r.sessions, 1, Len(sessions)) = sessions)
    /\ [][sessions' # sessions =>
            /\ op' = "append"
            /\ Len(sessions') = Len(sessions) + 1
            /\ SubSeq(sessions', 1, Len(sessions)) = sessions]_vars

\* a goal was finished with two sessions in the ledger
C23_Witness ==
    /\ op = "finish" /\ Len(sessions) = 2

\* the sessions of sessions.csv that a statistics call is about: the rows
\* that parse, of the title asked for when one is, started within the days
\* since..until when they are given
SessionsAskedFor(args) ==
    SelectSeq(WellFormedRows(sessions), LAMBDA r :
        /\ (args.title = <<>> \/ r.title = args.title)
        /\ (args.since.kind = "ok" => DateOf(r.start) >= args.since.val)
        /\ (args.until.kind = "ok" => DateOf(r.start) <= args.until.val))

\* the report has a line for the quantity, about all the sessions, with
\* this text
Reports(report, key, value) ==
    \E i \in 1..Len(report) :
        report[i].group = <<>> /\ report[i].key = key /\ report[i].value = value

\* C24, as the specification states it: statistics asked over an empty
\* session ledger, or with a filter that no session passes, end with status
\* 0 and report a session count of zero and a zero duration for the total
\* and for each of the windows today, last 7 days and last 30 days.
C24_EmptyStatisticsAreZero ==
    /\ call.f = "postfokus_run" /\ result # None
    /\ call.args.since.kind # "bad" /\ call.args.until.kind # "bad"
    /\ SessionsAskedFor(call.args) = <<>>
    => /\ result[1].rc = "0"
       /\ Reports(result[1].report, "sessions", <<"0">>)
       /\ \A key \in {"total", "today", "last 7 days", "last 30 days"} :
              Reports(result[1].report, key, format_hms(0))

\* C25: goals.csv is only ever replaced whole by what one process holds in
\* memory (the last rewrite wins), and there is an interleaving after which
\* an estimate that a process set with success is not in goals.csv.
C25_LastRewriteWins ==
    [][goalsFile' # goalsFile =>
          \E p \in 1..MaxProcs :
              /\ procs[p].pc \in {"write", "save"} /\ procs'[p].pc # procs[p].pc
              /\ goalsFile' = procs[p].loaded.file]_vars

\* both processes are done with status 0, one set the estimate of goal a to
\* 1s while the other appended a session, and goal a does not have it
C25_Witness ==
    \E p, q \in 1..MaxProcs :
        /\ procs[p].pc = "done" /\ procs[p].rc = "0"
        /\ procs[q].pc = "done" /\ procs[q].rc = "0"
        /\ procs[p].cmd = RaceCommand("prefokus", T_a_sp, OkArg(1), NoArg)
        /\ procs[q].cmd.kind = "append"
        /\ \A i \in GoalsTitled(goalsFile, T_a) : goalsFile[i].estimate_seconds # 1

\* C26: whenever the loop waits for a key the session is running and
\* single-key capture is on, and whenever it waits for a command line the
\* session is paused and the terminal is back in the mode fokus_run found;
\* there is no state between two polls with the switch half done.
C26_InputModesExclusive ==
    /\ pc = "running" => ~paused /\ pause_started = None /\ termMode = "cbreak" /\ held = Some(enteredWith)
    /\ pc = "prompt" => paused /\ pause_started # None /\ termMode = enteredWith /\ held = None

\* the loop waits for a key again after a pause and a resume
C26_Witness == pc = "running" /\ lines > 0 /\ CommandKind(cmd) = "resume" /\ termMode = "cbreak"

\* C27, as the specification states it: Ctrl+C at any point of a timer
\* session, from the initial render to the end of a save, is caught by
\* fokus_run, which ends the session as interrupted with the terminal restored
\* and nothing held, as a save or a discard leaves it.
C27_InterruptRunsCleanup ==
    [][(InitialRenderInterrupted \/ Interrupt \/ SaveInterrupted) =>
          /\ pc' = "done" /\ outcome' = "interrupted"
          /\ termMode' = enteredWith /\ held' = None]_vars

C29_ResumeRuns ==
    [][(ReadsLine /\ cmd' \in ResumeLines) =>
          /\ paused /\ pc' = "running" /\ ~paused' /\ outcome' = "none"
          /\ run_started' = now /\ pause_started' = None
          /\ termMode' = "cbreak" /\ held' = Some(enteredWith)
          /\ accumulated' = accumulated
          /\ sessions' = sessions /\ goalsFile' = goalsFile]_vars

\* a session that ran a second, was paused and was told to continue, over
\* ledgers that hold a session and its goal
C29_Witness ==
    /\ pc = "running" /\ ~paused /\ cmd = W_continue /\ lines = 1
    /\ accumulated = 1 /\ run_started = now /\ pause_started = None
    /\ termMode = "cbreak" /\ sessions # <<>> /\ goalsFile # <<>>

\* the value the command line gives with --title, None when it gives none
GivenTitle(line) ==
    IF line \in {C_save_title_a, C_save_b_title_a} THEN Some(T_a) ELSE None

\* C30: the row a save appends has the title given with --title in the save
\* command, whatever other words the command has, and without --title the
\* title the session was started with, empty when it was started with none.
C30_SavedTitle ==
    [][(ReadsLine /\ outcome' = "saved") =>
          /\ Len(sessions') = Len(sessions) + 1
          /\ sessions'[Len(sessions')].title =
                (IF GivenTitle(cmd') # None THEN GivenTitle(cmd')[1]
                 ELSE IF args_title = None THEN <<>> ELSE args_title[1])]_vars

\* a session started with the title b and saved with "save b --title a"
C30_Witness ==
    /\ outcome = "saved" /\ cmd = C_save_b_title_a /\ args_title = Some(T_b)
    /\ sessions # <<>> /\ sessions[Len(sessions)].title = T_a

\* a turn of the running loop that draws the clock again: elapsed differs
\* from last_whole, which then takes its value
DrawsAgain ==
    /\ pc = "running" /\ pc' \in {"running", "prompt"}
    /\ last_whole # -1 /\ last_whole' # last_whole

\* the quantity the clock shows: the completed minutes for dots, the whole
\* seconds otherwise
Shown(elapsed_s) == IF clock = "dots" THEN Dots(elapsed_s) ELSE elapsed_s

\* C31, as the specification states it: a running session draws the clock
\* again only when the quantity it shows has changed, the whole seconds for
\* digital and bar, the completed minutes for dots.
C31_DrawsOnChangeOnly ==
    [][DrawsAgain => Shown(last_whole') # Shown(last_whole)]_vars

\* C32, as the specification states it: the bar has bar_width cells, of which
\* min(floor(elapsed * bar_width / target), bar_width) are filled, and the
\* percentage is never above 100.
C32_BarCells ==
    call.f = "_tick_render" /\ result # None =>
        LET a == call.args
        IN  /\ result[1].filled + result[1].empty = a.bar_width
            /\ result[1].filled = Min((a.elapsed_s * a.bar_width) \div a.target_s, a.bar_width)
            /\ result[1].percent <= 100

\* the durations of the rows started on or after the day that many days
\* before today
WindowSum(rows, days) ==
    SumDurations(SelectSeq(rows, LAMBDA r : r.start >= (DateOf(now) - days) * TicksPerDay))

\* C33, as the specification states it: the statistics over the sessions
\* asked for report their count, their total, the average session length
\* total / count, the sums over the sessions started since midnight today,
\* since 6 days before and since 29 days before, the total divided by the
\* days from the earliest session date to today inclusive, and the 7-day and
\* 30-day window sums divided by 7 and by 30.
C33_StatisticsReport ==
    /\ call.f = "postfokus_run" /\ result # None /\ ~call.args.titles
    /\ result[1].rc = "0" /\ SessionsAskedFor(call.args) # <<>>
    => LET rows == SessionsAskedFor(call.args)
           total == SumDurations(rows)
           days_total == DateOf(now) - MinDate(rows) + 1
           report == result[1].report
       IN  /\ Reports(report, "sessions", Decimal(Len(rows)))
           /\ Reports(report, "total", format_hms(total))
           /\ Reports(report, "average session length", format_hms(total \div Len(rows)))
           /\ Reports(report, "today", format_hms(WindowSum(rows, 0)))
           /\ Reports(report, "last 7 days", format_hms(WindowSum(rows, 6)))
           /\ Reports(report, "last 30 days", format_hms(WindowSum(rows, 29)))
           /\ days_total > 0 =>
                  Reports(report, "average per day", format_hms(total \div days_total))
           /\ Reports(report, "average per day last 7 days",
                      format_hms(WindowSum(rows, 6) \div 7))
           /\ Reports(report, "average per day last 30 days",
                      format_hms(WindowSum(rows, 29) \div 30))


\* the sessions of a title group, the label the group is printed under, and
\* the numbers a printed count and a printed duration stand for
GroupLabel(title) == IF Strip(title) = <<>> THEN T_unnamed ELSE Strip(title)
GroupRows(rows, label) == SelectSeq(rows, LAMBDA r : GroupLabel(r.title) = label)
CountPrinted(value) == CHOOSE n \in 0..Len(sessions) : Decimal(n) = value
SecondsPrinted(value) ==
    CHOOSE n \in 0..SumDurations(WellFormedRows(sessions)) : format_hms(n) = value

RECURSIVE SumPrinted(_, _)
SumPrinted(report, key) ==
    IF report = <<>> THEN 0
    ELSE (IF Head(report).key # key THEN 0
          ELSE IF key = "sessions" THEN CountPrinted(Head(report).value)
          ELSE SecondsPrinted(Head(report).value))
         + SumPrinted(Tail(report), key)

\* C34: the statistics by title print, for every trimmed title of the
\* sessions considered (the blank ones together as "(unnamed)"), one pair of
\* lines with the number of its sessions and the sum of their durations;
\* the groups come in descending order of their sums, and the printed counts
\* and sums add up to the count and the total of the sessions considered.
C34_ByTitle ==
    /\ call.f = "postfokus_run" /\ result # None
    /\ call.args.titles /\ call.args.title = <<>>
    /\ result[1].rc = "0" /\ SessionsAskedFor(call.args) # <<>>
    => LET rows == SessionsAskedFor(call.args)
           labels == {GroupLabel(rows[i].title) : i \in 1..Len(rows)}
           report == result[1].report
           groups == Len(report) \div 2
       IN  /\ Len(report) = 2 * Cardinality(labels)
           /\ \A label \in labels :
                  \E j \in 1..groups :
                      /\ report[2 * j - 1] =
                             StatsLine(label, "sessions",
                                       Decimal(Len(GroupRows(rows, label))))
                      /\ report[2 * j] =
                             StatsLine(label, "total",
                                       format_hms(SumDurations(GroupRows(rows, label))))
           /\ \A i, j \in 1..groups :
                  i < j => SumDurations(GroupRows(rows, report[2 * i].group))
                              >= SumDurations(GroupRows(rows, report[2 * j].group))
           /\ SumPrinted(report, "sessions") = Len(rows)
           /\ SumPrinted(report, "total") = SumDurations(rows)

\* the sessions "a " of 1 s and " " of 30 s were reported by title: the
\* unnamed group comes first, then the group a
C34_Witness ==
    /\ call.f = "postfokus_run" /\ result # None
    /\ call.args.titles /\ call.args.title = <<>> /\ result[1].rc = "0"
    /\ Len(sessions) = 2
    /\ sessions[1].title = T_a_sp /\ sessions[2].title = <<" ">>
    /\ Len(result[1].report) = 4
    /\ result[1].report[1].group = T_unnamed
    /\ result[1].report[3].group = T_a


\* the grammar of durations: after trimming, one or more groups of digits
\* and a unit letter of either case, then possibly more digits
IsUnit(ch) == ch \in {"h", "m", "s", "H", "M", "S"}
InGrammar(text) ==
    LET s == Strip(text)
    IN  /\ s # <<>> /\ \E i \in 1..Len(s) : IsUnit(s[i])
        /\ \A i \in 1..Len(s) : IsDigit(s[i]) \/ IsUnit(s[i])
        /\ \A i \in 1..Len(s) : IsUnit(s[i]) => i > 1 /\ IsDigit(s[i - 1])

\* the number written by the digits that end just before position i
NumberBefore(s, i) ==
    LET first == CHOOSE j \in 1..i :
                     /\ \A k \in j..(i - 1) : IsDigit(s[k])
                     /\ (j = 1 \/ ~IsDigit(s[j - 1]))
    IN  IntOf(SubSeq(s, first, i - 1))

SecondsPer(ch) ==
    IF ch \in {"h", "H"} THEN 3600 ELSE IF ch \in {"m", "M"} THEN 60 ELSE 1

\* 3600 per hour, 60 per minute and 1 per second over the groups that end
\* at or before position i
RECURSIVE GroupSeconds(_, _)
GroupSeconds(s, i) ==
    IF i = 0 THEN 0
    ELSE (IF IsUnit(s[i]) THEN NumberBefore(s, i) * SecondsPer(s[i]) ELSE 0)
         + GroupSeconds(s, i - 1)

\* the seconds a text of the grammar stands for, the digits after the last
\* group being minutes
GrammarSeconds(text) ==
    LET s == Strip(text)
    IN  GroupSeconds(s, Len(s)) + 60 * NumberBefore(s, Len(s) + 1)

\* C35, as the specification states it: for every text of the grammar
\* parse_duration returns the sum of the groups, the digits after the last
\* group counted as minutes.
C35_ParseSums ==
    call.f = "parse_duration" /\ result # None /\ InGrammar(call.args)
        => result[1].parsed = Some(GrammarSeconds(call.args))

\* C35, amended: for every text of the grammar whose groups and trailing
\* digits sum to more than zero, parse_duration returns that sum; when the
\* sum is zero it raises.
C35_ParseSumsAboveZero ==
    call.f = "parse_duration" /\ result # None /\ InGrammar(call.args)
        => result[1].parsed = IF GrammarSeconds(call.args) > 0
                       THEN Some(GrammarSeconds(call.args)) ELSE Raised

\* " 2H05 " was parsed: two hours and five minutes
C35_Witness ==
    /\ call.f = "parse_duration" /\ call.args = T_2H_padded /\ InGrammar(call.args)
    /\ result # None /\ result[1].parsed = Some(2 * 3600 + 5 * 60)


\* C36: when the reconciliation of goals.csv that follows the append of a
\* session fails, the row is in sessions.csv after the rows that were there,
\* the call returns the path of sessions.csv (the command ends with status
\* 0), and goals.csv is as it was.
C36_AppendSurvivesReconcile ==
    [][sessions' # sessions /\ ~load_goals_csv(goalsFile, sessions').ok
          => /\ Len(sessions') = Len(sessions) + 1
             /\ SubSeq(sessions', 1, Len(sessions)) = sessions
             /\ WellFormed(sessions'[Len(sessions')])
             /\ op' = "append"
             /\ goalsFile' = goalsFile]_vars

\* a session was appended with success to a ledger whose first row has a
\* start that does not parse; the goal ledger has no goal for it
C36_Witness ==
    /\ op = "append" /\ Len(sessions) = 2
    /\ sessions[1].start = BadText /\ WellFormed(sessions[2])
    /\ ~load_goals_csv(goalsFile, sessions).ok
    /\ goalsFile = <<>>


\* every command of the two processes has ended
AllDone == \A p \in 1..MaxProcs : procs[p].pc = "done"

\* what one more load_goals_csv returns has, for every trimmed non-blank
\* title of sessions.csv, a goal, and each such goal has the time worked
\* that is the sum over its estimate window
Recoverable ==
    LET further == load_goals_csv(goalsFile, sessions)
    IN  /\ further.ok
        /\ \A title \in SessionTitlesOf(sessions) :
               /\ GoalsTitled(further.goals, title) # {}
               /\ \A i \in GoalsTitled(further.goals, title) :
                      further.goals[i].time_worked_seconds =
                          SumOfTitle(sessions, title,
                                     further.goals[i].estimate_timestamp)

\* C37: whatever the interleaving of the processes, sessions.csv changes
\* only by the row a session append adds at its end (a load, an estimate, a
\* deadline or a finish never changes it), and once the commands have ended
\* one more load of the goal ledger returns, for every non-blank session
\* title, a goal whose time_worked_seconds is the sum over its estimate
\* window.
C37_DerivedFieldsRecoverable ==
    [][/\ sessions' # sessions =>
              \E p \in 1..MaxProcs :
                  /\ procs[p].cmd.kind = "append" /\ procs[p].pc = "append"
                  /\ procs'[p].pc # "append"
                  /\ Len(sessions') = Len(sessions) + 1
                  /\ SubSeq(sessions', 1, Len(sessions)) = sessions
       /\ AllDone' => Recoverable']_vars

\* the commands have ended and goals.csv holds for goal a a time worked
\* that is not the sum over its estimate window, and has no goal for the
\* session title b: the next load repairs both
C37_Witness ==
    /\ AllDone /\ Recoverable
    /\ \E i \in 1..Len(goalsFile) :
           /\ goalsFile[i].title = T_a
           /\ goalsFile[i].time_worked_seconds #
                  SumOfTitle(sessions, T_a, goalsFile[i].estimate_timestamp)
    /\ T_b \in SessionTitlesOf(sessions) /\ GoalsTitled(goalsFile, T_b) = {}


\* the steps that run the reconciliation of load_goals_csv and nothing
\* else on goals.csv: a load on its own, and the load that follows the
\* append of a session
ReconcilesOnly ==
    /\ op' \in {"load", "append"}
    /\ goalsFile' = load_goals_csv(goalsFile, sessions').file

\* C38: the reconciliation of load_goals_csv leaves every goal of goals.csv
\* that has a non-blank title in the file, in its place, with the
\* estimate_seconds, estimate_timestamp, deadline and start_by it had.
C38_ReconcileKeepsPlan ==
    [][ReconcilesOnly =>
           \A i \in 1..Len(goalsFile) :
               Strip(goalsFile[i].title) # <<>> =>
                   /\ i <= Len(goalsFile')
                   /\ Strip(goalsFile'[i].title) = Strip(goalsFile[i].title)
                   /\ EstimateFields(goalsFile')[i] = EstimateFields(goalsFile)[i]]_vars

\* a load on its own rewrote goals.csv for the time worked of a goal that
\* has an estimate, a deadline and a start_by
C38_Witness ==
    /\ op = "load" /\ loads # <<>> /\ loads[Len(loads)].wrote
    /\ \E i \in 1..Len(goalsFile) :
           /\ i <= Len(loads[Len(loads)].before)
           /\ goalsFile[i].time_worked_seconds #
                  loads[Len(loads)].before[i].time_worked_seconds
           /\ goalsFile[i].estimate_seconds > 0
           /\ goalsFile[i].estimate_timestamp # None
           /\ goalsFile[i].deadline # None /\ goalsFile[i].start_by # None


\* C39: a session backfilled with success is the last row of sessions.csv
\* with the duration given; when the start, the end or both are absent its
\* end minus its start is that duration: with both absent the end is the
\* time of the call and the start that time less the duration, with the
\* start absent the start is the end given less the duration, with the end
\* absent the end is the start given plus the duration.
C39_BackfillTimes ==
    /\ call.f = "postfokus_run" /\ result # None /\ "duration" \in DOMAIN call.args
    /\ result[1].rc = "0"
    => LET a == call.args
           row == sessions[Len(sessions)]
           span == a.duration * TicksPerSecond
           Time(arg) == IF "hh_mm" \in DOMAIN arg
                        THEN DateOf(call.at) * TicksPerDay + arg.val ELSE arg.val
       IN  /\ sessions # <<>>
           /\ row.duration = Some(a.duration)
           /\ a.start.kind = "none" \/ a.end.kind = "none" =>
                  row.end[1] - row.start[1] = span
           /\ a.start.kind = "none" /\ a.end.kind = "none" =>
                  row.end = Some(call.at) /\ row.start = Some(call.at - span)
           /\ a.start.kind = "none" /\ a.end.kind = "ok" =>
                  row.end = Some(Time(a.end)) /\ row.start = Some(Time(a.end) - span)
           /\ a.start.kind = "ok" /\ a.end.kind = "none" =>
                  row.start = Some(Time(a.start)) /\ row.end = Some(Time(a.start) + span)

\* a session of 2 s was backfilled at tick 1 with --end given as HH:MM and
\* no --start
C39_Witness ==
    /\ call.f = "postfokus_run" /\ result # None /\ "duration" \in DOMAIN call.args
    /\ result[1].rc = "0" /\ call.at = 1
    /\ call.args.duration = 2 /\ call.args.start = NoArg /\ call.args.end = HhMmArg(1)
    /\ Len(sessions) = 1
    /\ sessions[1].end = Some(1) /\ sessions[1].start = Some(1 - 2 * TicksPerSecond)


====
